---- MODULE Spec2Model ----
(***************************************************************************)
(* Pairing-session lifecycle of the Toxic-MD pairing API.                  *)
(*                                                                         *)
(* The repository holds several stand-alone variants of the same express   *)
(* service.  Each variant is modelled as its own next-state relation over  *)
(* a common state:                                                         *)
(*   P1  src/index.js 1-467           startPairingProcess, Map by userId   *)
(*   P2  src/index.js 468-906         inline handler, Map by sessionId     *)
(*   P3  src/unnamed/part_000 1-353   nested startPairing                  *)
(*   P4  src/unnamed/part_000 354-794 "stable pairing" handler             *)
(*                                                                         *)
(* JavaScript runs one callback at a time, so an action is the code        *)
(* between two awaits: it starts when an awaited promise settles, an event *)
(* is emitted or a timer fires, and ends at the next await or return.      *)
(***************************************************************************)
EXTENDS Integers, Sequences, FiniteSets, TLC

VARIABLES
    prog,        \* which variant of the service is running
    req,         \* req[r]: body of request r, [phoneNumber, userId]
    pc,          \* pc[r]: where the POST /pair chain of request r is suspended
    resp,        \* resp[r]: status codes written to the response of r, in order
    responded,   \* P4: the handler's local flag `responded`
    registry,    \* the Map activePairingSessions / activeSessions; P5: `sessions`
    dirs,        \* requests whose session directory exists on disk
    sockSt,      \* sockSt[r]: "none", "live" (created) or "ended" (sock.end())
    listening,   \* listening[r]: connection.update listener attached
    events,      \* events[r]: connection.update events the socket has emitted
    opens,       \* opens[r]: how many of them were 'open'
    codeCalls,   \* codeCalls[r]: invocations of sock.requestPairingCode
    codePending, \* codePending[r]: requestPairingCode promises not settled
    timer,       \* timer[r]: the handler's setTimeout: "unset", "armed", "fired"
    openH,       \* openH[r]: one entry per 'open' handler run of r: where it is
    deploys,     \* deploys[r]: deploy handoffs started for the session of r
    db,          \* the users table: db[u] is the row of user u, or NoRow
    lateWrites,  \* un-awaited status updates not yet applied: <<userId, status>>
    sid,         \* P2: sid[r], the session id `toxic_${userId}_${Date.now()}` of r
    knownUser,   \* knownUser[r]: the users table held a row of r's userId when r arrived
    deployFailed, \* requests whose deploy handoff threw (a catch of the handoff ran)
    codeFailed,  \* requests whose sock.requestPairingCode rejected
    tempRepo,    \* the directory tempDir ('temp-repo') shared by all deploy handoffs
    handoff,     \* handoff[r]: where the git part of the deploy handoff of r is
    pushed,      \* pushed[r]: the session files the push of r's handoff sent
    order,       \* P4: the session ids in the order activeSessions.set stored them
    shut,        \* P4: shut[sig]: the run of gracefulShutdown started by signal sig
    statusReply  \* <<id, body>> of the GET /status answered last, if no other
                 \* event happened since; NoReply otherwise

vars == << prog, req, pc, resp, responded, registry, dirs, sockSt, listening,
           events, opens, codeCalls, codePending, timer, openH, deploys, db,
           lateWrites, sid, knownUser, deployFailed, codeFailed, tempRepo,
           handoff, pushed, statusReply, order, shut >>

----------------------------------------------------------------------------
(* Bounds of the model *)

\* connection.update events ('open' or 'close') the sockets may emit in all
MaxEvents == 2

\* indices of the 'open' listener runs of one socket
HandlerRuns == 1..MaxEvents

\* concurrent POST /pair requests
Req == {1, 2}

UserIds == {"alice", "bob"}

\* A string is a sequence of one-character strings.  The empty sequence stands
\* for every falsy body field (undefined, null, ""): `!x` treats them alike.
Digits == {"0", "1", "2", "3", "4", "5", "6", "7", "8", "9"}

Phones ==
    { << >>,
      << "+", "1", "2", "3", "-", "4", "5", "6", "7" >>,
      << "1", "2", "3", "4", "-", "5", "6", "7", "8" >>,
      << "2", "5", "4" >> }

Bodies == [phoneNumber : Phones, userId : UserIds \cup {""}]

NoBody == [phoneNumber |-> << >>, userId |-> ""]

----------------------------------------------------------------------------
(* Helpers *)

\* phoneNumber.replace(/[^0-9]/g, '')
StripNonDigits(s) == SelectSeq(s, LAMBDA c : c \in Digits)

\* !phoneNumber || !userId
MissingField(b) == b.phoneNumber = << >> \/ b.userId = ""

\* Map.set / Map.delete / Map.has
MapSet(m, k, v) == [x \in DOMAIN m \cup {k} |-> IF x = k THEN v ELSE m[x]]
MapDelete(m, k) == [x \in DOMAIN m \ {k} |-> m[x]]
MapHas(m, k) == k \in DOMAIN m

\* The users table holds at most one row per user_id (UNIQUE NOT NULL)
NoRow == [status |-> "none", sid |-> 0]
HasRow(u) == db[u].status # "none"

\* The status GET /status would read for user u
StatusOf(u) == IF u \in UserIds THEN db[u].status ELSE "none"

\* INSERT INTO users (user_id, ..., session_id, status)
DbInsert(u, sessionId, st) ==
    db' = [db EXCEPT ![u] = [status |-> st, sid |-> sessionId]]

\* UPDATE users SET status = st WHERE user_id = u
DbUpdate(u, st) == db' = IF HasRow(u) THEN [db EXCEPT ![u].status = st] ELSE db

\* res.status(code).json(...): one more response written for request r
Send(r, code) == resp' = [resp EXCEPT ![r] = Append(@, code)]

\* res.headersSent
HeadersSent(r) == resp[r] # << >>

\* The sockets may emit one more connection.update event
RECURSIVE SumOver(_, _)
SumOver(f, S) == IF S = {} THEN 0
                 ELSE LET x == CHOOSE y \in S : TRUE IN f[x] + SumOver(f, S \ {x})
MayEmit == SumOver(events, Req) < MaxEvents

\* Request r arrives with body b.  Requests are numbered in the order of their
\* arrival, and user ids are named in the order of their first use: "bob" is
\* the id of a second user (the ids are interchangeable).
Arrives(r, b) ==
    /\ pc[r] = "idle"
    /\ \A q \in Req : q < r => pc[q] # "idle"
    /\ b.userId = "bob" => \E q \in Req : q < r /\ req[q].userId = "alice"

\* part_000 788-789: the signals gracefulShutdown is registered for
Signals == {"SIGTERM", "SIGINT"}

\* no GET /status was answered since the last other event
NoReply == << >>

\* tempDir does not exist
NoRepo == [state |-> "absent", cloner |-> 0, tree |-> << >>, index |-> << >>,
           commits |-> << >>]

\* makeid(): the session id of request r.  Ten random characters; the model
\* takes the ids of different requests to be different.
SessionId(r) == r

----------------------------------------------------------------------------
(* Initial state: the server is up, no request has arrived *)

InitFor(programs) ==
    /\ prog \in programs
    /\ req = [r \in Req |-> NoBody]
    /\ pc = [r \in Req |-> "idle"]
    /\ resp = [r \in Req |-> << >>]
    /\ responded = [r \in Req |-> FALSE]
    /\ registry = << >>
    /\ dirs = {}
    /\ sockSt = [r \in Req |-> "none"]
    /\ listening = [r \in Req |-> FALSE]
    /\ events = [r \in Req |-> 0]
    /\ opens = [r \in Req |-> 0]
    /\ codeCalls = [r \in Req |-> 0]
    /\ codePending = [r \in Req |-> 0]
    /\ timer = [r \in Req |-> "unset"]
    /\ openH = [r \in Req |-> << >>]
    /\ deploys = [r \in Req |-> 0]
    /\ db = [u \in UserIds |-> NoRow]
    /\ lateWrites = {}
    /\ sid = [r \in Req |-> 0]
    /\ knownUser = [r \in Req |-> FALSE]
    /\ deployFailed = {}
    /\ codeFailed = {}
    /\ tempRepo = NoRepo
    /\ handoff = [r \in Req |-> "idle"]
    /\ pushed = [r \in Req |-> << >>]
    /\ statusReply = NoReply
    /\ order = << >>
    /\ shut = [sig \in Signals |->
                [at |-> "idle", pos |-> 0, start |-> 0, visited |-> {}]]

----------------------------------------------------------------------------
(* P4: the "stable pairing" handler, src/unnamed/part_000 540-747 *)

\* cleanPhone.length < 8
P4_PhoneTooShort(b) == Len(StripNonDigits(b.phoneNumber)) < 8

\* lines 540-572: validation, makeid, mkdir, up to the first await
P4_Pair(r, b) ==
    /\ prog = "P4"
    /\ Arrives(r, b)
    /\ req' = [req EXCEPT ![r] = b]
    /\ IF MissingField(b) \/ P4_PhoneTooShort(b)
       THEN /\ Send(r, 400)
            /\ pc' = [pc EXCEPT ![r] = "done"]
            /\ dirs' = dirs
       ELSE /\ dirs' = dirs \cup {r}
            /\ pc' = [pc EXCEPT ![r] = "setup"]
            /\ resp' = resp
    /\ UNCHANGED << order, shut, statusReply, tempRepo, handoff, pushed, codeFailed, knownUser, deployFailed, sid, prog, openH, deploys, db, lateWrites, responded, registry, sockSt, listening, events, opens,
                    codeCalls, codePending, timer >>

\* sock.end(); removeFile(sessionPath); activeSessions.delete(sessionId)
P4_Cleanup(r) ==
    /\ sockSt' = [sockSt EXCEPT ![r] = "ended"]
    /\ dirs' = dirs \ {r}
    /\ registry' = MapDelete(registry, SessionId(r))

\* Faulty variant of P4_SetupOk: the code is requested as soon as the socket
\* is made, as the other handlers do, instead of on 'open'
P4_SetupOk_RequestsCode(r) ==
    /\ prog = "P4"
    /\ pc[r] = "setup"
    /\ sockSt' = [sockSt EXCEPT ![r] = "live"]
    /\ registry' = MapSet(registry, SessionId(r),
                          [userId |-> req[r].userId, connected |-> FALSE])
    /\ order' = Append(order, SessionId(r))
    /\ listening' = [listening EXCEPT ![r] = TRUE]
    /\ timer' = [timer EXCEPT ![r] = "armed"]
    /\ codeCalls' = [codeCalls EXCEPT ![r] = @ + 1]
    /\ codePending' = [codePending EXCEPT ![r] = @ + 1]
    /\ pc' = [pc EXCEPT ![r] = "waiting"]
    /\ UNCHANGED << shut, statusReply, tempRepo, handoff, pushed, codeFailed, knownUser, deployFailed, sid, prog, openH, deploys, db, lateWrites, req, resp, responded,
                    dirs, events, opens >>

\* lines 572-731: the awaits settled; socket made, session stored, listeners
\* attached, 20 s timer armed
P4_SetupOk(r) ==
    /\ prog = "P4"
    /\ pc[r] = "setup"
    /\ sockSt' = [sockSt EXCEPT ![r] = "live"]
    /\ registry' = MapSet(registry, SessionId(r),
                          [userId |-> req[r].userId, connected |-> FALSE])
    /\ order' = Append(order, SessionId(r))
    /\ listening' = [listening EXCEPT ![r] = TRUE]
    /\ timer' = [timer EXCEPT ![r] = "armed"]
    /\ pc' = [pc EXCEPT ![r] = "waiting"]
    /\ UNCHANGED << shut, statusReply, tempRepo, handoff, pushed, codeFailed, knownUser, deployFailed, sid, prog, openH, deploys, db, lateWrites, req, resp, responded, dirs, events, opens, codeCalls,
                    codePending >>

\* lines 735-746: useMultiFileAuthState or makeWASocket threw
P4_SetupThrows(r) ==
    /\ prog = "P4"
    /\ pc[r] = "setup"
    /\ dirs' = dirs \ {r}
    /\ registry' = MapDelete(registry, SessionId(r))
    /\ IF ~HeadersSent(r) THEN Send(r, 500) ELSE resp' = resp
    /\ pc' = [pc EXCEPT ![r] = "done"]
    /\ UNCHANGED << order, shut, statusReply, tempRepo, handoff, pushed, codeFailed, knownUser, deployFailed, sid, prog, openH, deploys, db, lateWrites, req, responded, sockSt, listening, events, opens,
                    codeCalls, codePending, timer >>

\* lines 631-643: 'open' reaches onConnectionUpdate, which calls
\* requestPairingCode and suspends
P4_OnOpen(r) ==
    /\ prog = "P4"
    /\ sockSt[r] = "live" /\ listening[r]
    /\ MayEmit
    /\ events' = [events EXCEPT ![r] = @ + 1]
    /\ opens' = [opens EXCEPT ![r] = @ + 1]
    /\ codeCalls' = [codeCalls EXCEPT ![r] = @ + 1]
    /\ codePending' = [codePending EXCEPT ![r] = @ + 1]
    /\ UNCHANGED << order, shut, statusReply, tempRepo, handoff, pushed, codeFailed, knownUser, deployFailed, sid, prog, openH, deploys, db, lateWrites, req, pc, resp, responded, registry, dirs, sockSt,
                    listening, timer >>

\* Faulty variant of P4_CodeResolved: the continuation stores the session
\* again when the code arrives
P4_CodeResolved_StoresSession(r) ==
    /\ prog = "P4"
    /\ codePending[r] > 0
    /\ codePending' = [codePending EXCEPT ![r] = @ - 1]
    /\ registry' = MapSet(registry, SessionId(r),
                          [userId |-> req[r].userId, connected |-> FALSE])
    /\ IF ~responded[r] /\ ~HeadersSent(r)
       THEN /\ Send(r, 200)
            /\ responded' = [responded EXCEPT ![r] = TRUE]
       ELSE UNCHANGED << resp, responded >>
    /\ UNCHANGED << order, shut, statusReply, tempRepo, handoff, pushed, codeFailed, knownUser, deployFailed, sid, prog, openH, deploys, db, lateWrites, req, pc, dirs, sockSt, listening, events,
                    opens, codeCalls, timer >>

\* lines 644-655: requestPairingCode resolved
P4_CodeResolved(r) ==
    /\ prog = "P4"
    /\ codePending[r] > 0
    /\ codePending' = [codePending EXCEPT ![r] = @ - 1]
    /\ IF ~responded[r] /\ ~HeadersSent(r)
       THEN /\ Send(r, 200)
            /\ responded' = [responded EXCEPT ![r] = TRUE]
       ELSE UNCHANGED << resp, responded >>
    /\ UNCHANGED << order, shut, statusReply, tempRepo, handoff, pushed, codeFailed, knownUser, deployFailed, sid, prog, openH, deploys, db, lateWrites, req, pc, registry, dirs, sockSt, listening, events,
                    opens, codeCalls, timer >>

\* lines 660-676: requestPairingCode rejected
P4_CodeRejected(r) ==
    /\ prog = "P4"
    /\ codePending[r] > 0
    /\ codeFailed' = codeFailed \cup {r}
    /\ codePending' = [codePending EXCEPT ![r] = @ - 1]
    /\ IF ~responded[r] /\ ~HeadersSent(r)
       THEN /\ Send(r, 500)
            /\ responded' = [responded EXCEPT ![r] = TRUE]
       ELSE UNCHANGED << resp, responded >>
    /\ P4_Cleanup(r)
    /\ UNCHANGED << order, shut, statusReply, tempRepo, handoff, pushed, knownUser, deployFailed, sid, prog, openH, deploys, db, lateWrites, req, pc, listening, events, opens, codeCalls, timer >>

\* lines 680-694: 'close' reaches onConnectionUpdate
P4_OnClose(r) ==
    /\ prog = "P4"
    /\ sockSt[r] = "live" /\ listening[r]
    /\ MayEmit
    /\ events' = [events EXCEPT ![r] = @ + 1]
    /\ IF ~responded[r] /\ ~HeadersSent(r)
       THEN /\ Send(r, 500)
            /\ responded' = [responded EXCEPT ![r] = TRUE]
       ELSE UNCHANGED << resp, responded >>
    /\ P4_Cleanup(r)
    /\ UNCHANGED << order, shut, statusReply, tempRepo, handoff, pushed, codeFailed, knownUser, deployFailed, sid, prog, openH, deploys, db, lateWrites, req, pc, listening, opens, codeCalls, codePending,
                    timer >>

\* Faulty variant of P4_Timeout: the timer callback answers 504 without
\* testing `responded` or res.headersSent
P4_Timeout_Unguarded(r) ==
    /\ prog = "P4"
    /\ timer[r] = "armed"
    /\ timer' = [timer EXCEPT ![r] = "fired"]
    /\ Send(r, 504)
    /\ responded' = [responded EXCEPT ![r] = TRUE]
    /\ P4_Cleanup(r)
    /\ UNCHANGED << order, shut, statusReply, tempRepo, handoff, pushed, codeFailed, knownUser, deployFailed, sid, prog, openH, deploys, db, lateWrites, req, pc, listening,
                    events, opens, codeCalls, codePending >>

\* lines 719-731: the 20 s timer fires
P4_Timeout(r) ==
    /\ prog = "P4"
    /\ timer[r] = "armed"
    /\ timer' = [timer EXCEPT ![r] = "fired"]
    /\ IF ~responded[r] /\ ~HeadersSent(r)
       THEN /\ Send(r, 504)
            /\ responded' = [responded EXCEPT ![r] = TRUE]
            /\ P4_Cleanup(r)
       ELSE UNCHANGED << resp, responded, sockSt, dirs, registry >>
    /\ UNCHANGED << order, shut, statusReply, tempRepo, handoff, pushed, codeFailed, knownUser, deployFailed, sid, prog, openH, deploys, db, lateWrites, req, pc, listening, events, opens, codeCalls,
                    codePending >>

\* lines 750-767: GET /status/:sessionId, the `connected` field of its answer
P4_StatusConnected(id) ==
    IF MapHas(registry, id) THEN registry[id].connected ELSE FALSE

NextP4 ==
    \E r \in Req :
        \/ \E b \in Bodies : P4_Pair(r, b)
        \/ P4_SetupOk(r)
        \/ P4_SetupThrows(r)
        \/ P4_OnOpen(r)
        \/ P4_CodeResolved(r)
        \/ P4_CodeRejected(r)
        \/ P4_OnClose(r)
        \/ P4_Timeout(r)

SpecP4 == InitFor({"P4"}) /\ [][NextP4]_vars

----------------------------------------------------------------------------
(* P4: gracefulShutdown, src/unnamed/part_000 770-789 *)

\* line 786: process.exit(0) was reached; nothing runs afterwards
Exited == \E sig \in Signals : shut[sig].at = "exit"

\* The iterator of activeSessions.entries(): the position of the first entry
\* after position pos that is in the Map reg, 0 when there is none.  The
\* iterator is live: it passes over entries deleted in the meantime and
\* reaches entries stored after it was made.
NextEntry(reg, pos, last) ==
    LET rest == {i \in DOMAIN order : i > pos /\ i <= last /\ MapHas(reg, order[i])}
    IN  IF rest = {} THEN 0 ELSE CHOOSE i \in rest : \A j \in rest : i <= j

\* lines 770-781: a signal arrives; the loop takes the first entry, closes its
\* socket and suspends at `await s.saveCreds()`, or exits if there is none
gracefulShutdown(sig) ==
    /\ prog = "P4" /\ ~Exited
    /\ shut[sig].at = "idle"
    /\ LET i == NextEntry(registry, 0, Len(order))
       IN  shut' = [shut EXCEPT ![sig] =
                      IF i = 0
                      THEN [@ EXCEPT !.at = "exit"]
                      ELSE [at |-> "saveCreds", pos |-> i, start |-> Len(order),
                            visited |-> {order[i]}]]
    /\ UNCHANGED << order, statusReply, tempRepo, handoff, pushed, codeFailed, knownUser, deployFailed, sid, prog, openH, deploys, db, lateWrites, req, pc, resp, responded, registry, dirs,
                    sockSt, listening, events, opens, codeCalls, codePending, timer >>

\* Faulty variant of gracefulShutdown_Resumes: the loop runs over the entries
\* the Map held when the signal arrived
gracefulShutdown_Resumes_Snapshot(sig) ==
    /\ prog = "P4" /\ ~Exited
    /\ shut[sig].at = "saveCreds"
    /\ LET id == order[shut[sig].pos]
           reg == MapDelete(registry, id)
           i == NextEntry(reg, shut[sig].pos, shut[sig].start)
       IN  /\ dirs' = dirs \ {r \in Req : SessionId(r) = id}
           /\ registry' = reg
           /\ shut' = [shut EXCEPT ![sig] =
                         IF i = 0
                         THEN [@ EXCEPT !.at = "exit"]
                         ELSE [@ EXCEPT !.pos = i,
                                        !.visited = @ \cup {order[i]}]]
    /\ UNCHANGED << order, statusReply, tempRepo, handoff, pushed, codeFailed, knownUser, deployFailed, sid, prog, openH, deploys, db, lateWrites, req, pc, resp, responded,
                    sockSt, listening, events, opens, codeCalls, codePending, timer >>

\* lines 781-786: saveCreds settled (a rejection is swallowed); the directory
\* of the entry is removed and the entry deleted, then the loop takes the next
\* entry and suspends again, or reaches process.exit(0)
gracefulShutdown_Resumes(sig) ==
    /\ prog = "P4" /\ ~Exited
    /\ shut[sig].at = "saveCreds"
    /\ LET id == order[shut[sig].pos]
           reg == MapDelete(registry, id)
           i == NextEntry(reg, shut[sig].pos, Len(order))
       IN  /\ dirs' = dirs \ {r \in Req : SessionId(r) = id}
           /\ registry' = reg
           /\ shut' = [shut EXCEPT ![sig] =
                         IF i = 0
                         THEN [@ EXCEPT !.at = "exit"]
                         ELSE [@ EXCEPT !.pos = i,
                                        !.visited = @ \cup {order[i]}]]
    /\ UNCHANGED << order, statusReply, tempRepo, handoff, pushed, codeFailed, knownUser, deployFailed, sid, prog, openH, deploys, db, lateWrites, req, pc, resp, responded,
                    sockSt, listening, events, opens, codeCalls, codePending, timer >>

\* The handler's callbacks go on running until the process exits
NextShutdown ==
    \/ ~Exited /\ NextP4
    \/ \E sig \in Signals :
        \/ gracefulShutdown(sig)
        \/ gracefulShutdown_Resumes(sig)

SpecShutdown == InitFor({"P4"}) /\ [][NextShutdown]_vars

\* the awaited saveCreds of the loop settles
FairSpecShutdown ==
    /\ SpecShutdown
    /\ \A sig \in Signals : WF_vars(gracefulShutdown_Resumes(sig))

----------------------------------------------------------------------------
(* P3: POST /pair with the nested startPairing, src/unnamed/part_000 166-327 *)

\* Faulty variant of P3_PhoneTooShort: the length test is off by one
P3_PhoneTooShort_OffByOne(b) == Len(StripNonDigits(b.phoneNumber)) < 7

\* cleanPhone.length < 8
P3_PhoneTooShort(b) == Len(StripNonDigits(b.phoneNumber)) < 8

\* lines 166-198: validation, makeid, mkdir, startPairing() up to its first await
P3_Pair(r, b) ==
    /\ prog = "P3"
    /\ Arrives(r, b)
    /\ req' = [req EXCEPT ![r] = b]
    /\ IF MissingField(b) \/ P3_PhoneTooShort(b)
       THEN /\ Send(r, 400)
            /\ pc' = [pc EXCEPT ![r] = "done"]
            /\ dirs' = dirs
       ELSE /\ dirs' = dirs \cup {r}
            /\ pc' = [pc EXCEPT ![r] = "init"]
            /\ resp' = resp
    /\ UNCHANGED << order, shut, statusReply, tempRepo, handoff, pushed, codeFailed, knownUser, deployFailed, sid, prog, openH, deploys, db, lateWrites, responded, registry,
                    sockSt, listening, events, opens, codeCalls, codePending,
                    timer >>

\* lines 312-323: the catch of startPairing
P3_Catch(r) ==
    /\ dirs' = dirs \ {r}
    /\ registry' = MapDelete(registry, SessionId(r))
    /\ IF ~HeadersSent(r) THEN Send(r, 500) ELSE resp' = resp
    /\ pc' = [pc EXCEPT ![r] = "done"]

\* lines 198-224: socket made, session stored, creds not registered: delay(1500)
P3_InitOk(r) ==
    /\ prog = "P3"
    /\ pc[r] = "init"
    /\ sockSt' = [sockSt EXCEPT ![r] = "live"]
    /\ registry' = MapSet(registry, SessionId(r),
                          [userId |-> req[r].userId, connected |-> FALSE])
    /\ pc' = [pc EXCEPT ![r] = "delay"]
    /\ UNCHANGED << order, shut, statusReply, tempRepo, handoff, pushed, codeFailed, knownUser, deployFailed, sid, prog, openH, deploys, db, lateWrites, req, resp, responded,
                    dirs, listening, events, opens, codeCalls, codePending,
                    timer >>

\* fetchLatestBaileysVersion, useMultiFileAuthState or the socket factory threw
P3_InitThrows(r) ==
    /\ prog = "P3"
    /\ pc[r] = "init"
    /\ P3_Catch(r)
    /\ UNCHANGED << order, shut, statusReply, tempRepo, handoff, pushed, codeFailed, knownUser, deployFailed, sid, prog, openH, deploys, db, lateWrites, req, responded, sockSt,
                    listening, events, opens, codeCalls, codePending, timer >>

\* lines 224-227: the delay is over, requestPairingCode is called
P3_DelayDone(r) ==
    /\ prog = "P3"
    /\ pc[r] = "delay"
    /\ codeCalls' = [codeCalls EXCEPT ![r] = @ + 1]
    /\ codePending' = [codePending EXCEPT ![r] = @ + 1]
    /\ pc' = [pc EXCEPT ![r] = "code"]
    /\ UNCHANGED << order, shut, statusReply, tempRepo, handoff, pushed, codeFailed, knownUser, deployFailed, sid, prog, openH, deploys, db, lateWrites, req, resp, responded,
                    registry, dirs, sockSt, listening, events, opens, timer >>

\* lines 227-310: the code arrived: answer, then attach the listeners
P3_CodeResolved(r) ==
    /\ prog = "P3"
    /\ pc[r] = "code"
    /\ codePending' = [codePending EXCEPT ![r] = @ - 1]
    /\ IF ~HeadersSent(r) THEN Send(r, 200) ELSE resp' = resp
    /\ listening' = [listening EXCEPT ![r] = TRUE]
    /\ pc' = [pc EXCEPT ![r] = "live"]
    /\ UNCHANGED << order, shut, statusReply, tempRepo, handoff, pushed, codeFailed, knownUser, deployFailed, sid, prog, openH, deploys, db, lateWrites, req, responded,
                    registry, dirs, sockSt, events, opens, codeCalls, timer >>

\* requestPairingCode rejected: the catch
P3_CodeRejected(r) ==
    /\ prog = "P3"
    /\ pc[r] = "code"
    /\ codeFailed' = codeFailed \cup {r}
    /\ codePending' = [codePending EXCEPT ![r] = @ - 1]
    /\ P3_Catch(r)
    /\ UNCHANGED << order, shut, statusReply, tempRepo, handoff, pushed, knownUser, deployFailed, sid, prog, openH, deploys, db, lateWrites, req, responded, sockSt,
                    listening, events, opens, codeCalls, timer >>

\* The socket emits connection.update before any listener is attached
P3_EventLost(r, isOpen) ==
    /\ prog = "P3"
    /\ sockSt[r] = "live" /\ ~listening[r]
    /\ MayEmit
    /\ events' = [events EXCEPT ![r] = @ + 1]
    /\ opens' = [opens EXCEPT ![r] = IF isOpen THEN @ + 1 ELSE @]
    /\ UNCHANGED << order, shut, statusReply, tempRepo, handoff, pushed, codeFailed, knownUser, deployFailed, sid, prog, openH, deploys, db, lateWrites, req, pc, resp,
                    responded, registry, dirs, sockSt, listening, codeCalls,
                    codePending, timer >>

\* lines 241-251: 'open' reaches the listener: connected = true, welcome message
P3_OnOpen(r) ==
    /\ prog = "P3"
    /\ sockSt[r] = "live" /\ listening[r]
    /\ MayEmit
    /\ events' = [events EXCEPT ![r] = @ + 1]
    /\ opens' = [opens EXCEPT ![r] = @ + 1]
    /\ registry' = IF MapHas(registry, SessionId(r))
                   THEN [registry EXCEPT ![SessionId(r)].connected = TRUE]
                   ELSE registry
    /\ openH' = [openH EXCEPT ![r] = Append(@, "msg")]
    /\ UNCHANGED << order, shut, statusReply, tempRepo, handoff, pushed, codeFailed, knownUser, deployFailed, sid, prog, deploys, db, lateWrites, req, pc, resp, responded, dirs,
                    sockSt, listening, codeCalls, codePending, timer >>

\* lines 303-309: 'close' reaches the listener: logged
P3_OnClose(r) ==
    /\ prog = "P3"
    /\ sockSt[r] = "live" /\ listening[r]
    /\ MayEmit
    /\ events' = [events EXCEPT ![r] = @ + 1]
    /\ UNCHANGED << order, shut, statusReply, tempRepo, handoff, pushed, codeFailed, knownUser, deployFailed, sid, prog, openH, deploys, db, lateWrites, req, pc, resp,
                    responded, registry, dirs, sockSt, listening, opens,
                    codeCalls, codePending, timer >>

\* lines 251-267: the welcome message is out, delay(3000), the handoff starts
P3_WelcomeSent(r, i) ==
    /\ prog = "P3"
    /\ i \in DOMAIN openH[r] /\ openH[r][i] = "msg"
    /\ openH' = [openH EXCEPT ![r][i] = "deploy"]
    /\ deploys' = [deploys EXCEPT ![r] = @ + 1]
    /\ UNCHANGED << order, shut, statusReply, tempRepo, handoff, pushed, codeFailed, knownUser, deployFailed, sid, prog, db, lateWrites, req, pc, resp, responded, registry,
                    dirs, sockSt, listening, events, opens, codeCalls,
                    codePending, timer >>

\* line 251: sendMessage rejects outside any try: the listener run ends here
P3_WelcomeFails(r, i) ==
    /\ prog = "P3"
    /\ i \in DOMAIN openH[r] /\ openH[r][i] = "msg"
    /\ openH' = [openH EXCEPT ![r][i] = "aborted"]
    /\ UNCHANGED << order, shut, statusReply, tempRepo, handoff, pushed, codeFailed, knownUser, deployFailed, sid, prog, deploys, db, lateWrites, req, pc, resp, responded,
                    registry, dirs, sockSt, listening, events, opens, codeCalls,
                    codePending, timer >>

\* lines 267-280 / 284-288: saveToGitHubAndDeploy settled, the last message is sent
P3_DeploySettled(r, i, ok) ==
    /\ prog = "P3"
    /\ i \in DOMAIN openH[r] /\ openH[r][i] = "deploy"
    /\ openH' = [openH EXCEPT ![r][i] = IF ok THEN "msgOk" ELSE "msgFail"]
    /\ deployFailed' = IF ok THEN deployFailed ELSE deployFailed \cup {r}
    /\ UNCHANGED << order, shut, statusReply, tempRepo, handoff, pushed, codeFailed, knownUser, sid, prog, deploys, db, lateWrites, req, pc, resp, responded,
                    registry, dirs, sockSt, listening, events, opens, codeCalls,
                    codePending, timer >>

\* lines 291-299: delay(5000), sock.ws.close(), the 10 s cleanup timer is armed
P3_LastMessageSent(r, i) ==
    /\ prog = "P3"
    /\ i \in DOMAIN openH[r] /\ openH[r][i] \in {"msgOk", "msgFail"}
    /\ openH' = [openH EXCEPT ![r][i] = "cleanup"]
    /\ sockSt' = [sockSt EXCEPT ![r] = "ended"]
    /\ UNCHANGED << order, shut, statusReply, tempRepo, handoff, pushed, codeFailed, knownUser, deployFailed, sid, prog, deploys, db, lateWrites, req, pc, resp, responded,
                    registry, dirs, listening, events, opens, codeCalls,
                    codePending, timer >>

\* lines 270-288: that sendMessage rejects.  Inside the try the catch takes
\* over and sends the failure message; inside the catch the listener run ends
P3_LastMessageFails(r, i) ==
    /\ prog = "P3"
    /\ i \in DOMAIN openH[r] /\ openH[r][i] \in {"msgOk", "msgFail"}
    /\ openH' = [openH EXCEPT ![r][i] =
                    IF openH[r][i] = "msgOk" THEN "msgFail" ELSE "aborted"]
    /\ UNCHANGED << order, shut, statusReply, tempRepo, handoff, pushed, codeFailed, knownUser, deployFailed, sid, prog, deploys, db, lateWrites, req, pc, resp, responded,
                    registry, dirs, sockSt, listening, events, opens, codeCalls,
                    codePending, timer >>

\* lines 296-299: the cleanup timer fires
P3_CleanupFires(r, i) ==
    /\ prog = "P3"
    /\ i \in DOMAIN openH[r] /\ openH[r][i] = "cleanup"
    /\ openH' = [openH EXCEPT ![r][i] = "done"]
    /\ dirs' = dirs \ {r}
    /\ registry' = MapDelete(registry, SessionId(r))
    /\ UNCHANGED << order, shut, statusReply, tempRepo, handoff, pushed, codeFailed, knownUser, deployFailed, sid, prog, deploys, db, lateWrites, req, pc, resp, responded,
                    sockSt, listening, events, opens, codeCalls, codePending,
                    timer >>

\* lines 229-235: the body of the success response of startPairing
P3_SuccessBody(r) ==
    [success |-> TRUE, pairingCode |-> "code",
     message |-> "Enter this code in WhatsApp Linked Devices"]

\* lines 329-347: GET /status/:sessionId, the field `connected` of the answer
P3_StatusConnected(id) ==
    IF MapHas(registry, id) THEN registry[id].connected ELSE FALSE

NextP3 ==
    \E r \in Req :
        \/ \E b \in Bodies : P3_Pair(r, b)
        \/ P3_InitOk(r)
        \/ P3_InitThrows(r)
        \/ P3_DelayDone(r)
        \/ P3_CodeResolved(r)
        \/ P3_CodeRejected(r)
        \/ \E isOpen \in BOOLEAN : P3_EventLost(r, isOpen)
        \/ P3_OnOpen(r)
        \/ P3_OnClose(r)
        \/ \E i \in HandlerRuns :
            \/ P3_WelcomeSent(r, i)
            \/ P3_WelcomeFails(r, i)
            \/ \E ok \in BOOLEAN : P3_DeploySettled(r, i, ok)
            \/ P3_LastMessageSent(r, i)
            \/ P3_LastMessageFails(r, i)
            \/ P3_CleanupFires(r, i)

SpecP3 == InitFor({"P3"}) /\ [][NextP3]_vars

----------------------------------------------------------------------------
(* P1: POST /pair and startPairingProcess, src/index.js 228-428 *)

\* cleanPhone.length < 8
P1_PhoneTooShort(b) == Len(StripNonDigits(b.phoneNumber)) < 8

\* lines 228-253: validation, then the SELECT is awaited
P1_Pair(r, b) ==
    /\ prog = "P1"
    /\ Arrives(r, b)
    /\ req' = [req EXCEPT ![r] = b]
    /\ IF MissingField(b) \/ P1_PhoneTooShort(b)
       THEN /\ Send(r, 400)
            /\ pc' = [pc EXCEPT ![r] = "done"]
       ELSE /\ pc' = [pc EXCEPT ![r] = "select"]
            /\ resp' = resp
    /\ knownUser' = [knownUser EXCEPT ![r] = b.userId \in UserIds /\ HasRow(b.userId)]
    /\ UNCHANGED << order, shut, statusReply, tempRepo, handoff, pushed, codeFailed, deployFailed, sid, prog, openH, deploys, db, lateWrites, responded, registry,
                    dirs, sockSt, listening, events, opens, codeCalls,
                    codePending, timer >>

\* lines 281-287: the catch of the route
P1_RouteCatch(r) ==
    /\ Send(r, 500)
    /\ pc' = [pc EXCEPT ![r] = "done"]

\* Faulty variant of P1_SelectDone: the result of the SELECT is not looked at
P1_SelectDone_NoLookup(r) ==
    /\ prog = "P1"
    /\ pc[r] = "select"
    /\ dirs' = dirs \cup {r}
    /\ pc' = [pc EXCEPT ![r] = "insert"]
    /\ UNCHANGED << order, shut, statusReply, tempRepo, handoff, pushed, codeFailed, knownUser, deployFailed, sid, prog, openH, deploys, db,
                    lateWrites, req, resp, responded, registry, sockSt,
                    listening, events, opens, codeCalls, codePending, timer >>

\* lines 255-276: the SELECT returned: reject a known user, else mkdir and INSERT
P1_SelectDone(r) ==
    /\ prog = "P1"
    /\ pc[r] = "select"
    /\ IF HasRow(req[r].userId)
       THEN /\ Send(r, 400)
            /\ pc' = [pc EXCEPT ![r] = "done"]
            /\ dirs' = dirs
       ELSE /\ dirs' = dirs \cup {r}
            /\ pc' = [pc EXCEPT ![r] = "insert"]
            /\ resp' = resp
    /\ UNCHANGED << order, shut, statusReply, tempRepo, handoff, pushed, codeFailed, knownUser, deployFailed, sid, prog, openH, deploys, db, lateWrites, req, responded,
                    registry, sockSt, listening, events, opens, codeCalls,
                    codePending, timer >>

\* line 250: the SELECT rejected
P1_SelectThrows(r) ==
    /\ prog = "P1"
    /\ pc[r] = "select"
    /\ P1_RouteCatch(r)
    /\ UNCHANGED << order, shut, statusReply, tempRepo, handoff, pushed, codeFailed, knownUser, deployFailed, sid, prog, openH, deploys, db, lateWrites, req, responded,
                    registry, dirs, sockSt, listening, events, opens, codeCalls,
                    codePending, timer >>

\* lines 273-293: the row is in, startPairingProcess runs to its first await
P1_InsertDone(r) ==
    /\ prog = "P1"
    /\ pc[r] = "insert"
    /\ ~HasRow(req[r].userId)
    /\ DbInsert(req[r].userId, 0, "pairing")
    /\ pc' = [pc EXCEPT ![r] = "init"]
    /\ UNCHANGED << order, shut, statusReply, tempRepo, handoff, pushed, codeFailed, knownUser, deployFailed, sid, prog, openH, deploys, lateWrites, req, resp, responded,
                    registry, dirs, sockSt, listening, events, opens, codeCalls,
                    codePending, timer >>

\* line 273: the INSERT rejected (the store failed, or user_id is taken)
P1_InsertThrows(r) ==
    /\ prog = "P1"
    /\ pc[r] = "insert"
    /\ P1_RouteCatch(r)
    /\ UNCHANGED << order, shut, statusReply, tempRepo, handoff, pushed, codeFailed, knownUser, deployFailed, sid, prog, openH, deploys, db, lateWrites, req, responded,
                    registry, dirs, sockSt, listening, events, opens, codeCalls,
                    codePending, timer >>

\* lines 410-419: the catch of startPairingProcess, up to its awaited UPDATE
P1_Catch(r) ==
    /\ dirs' = dirs \ {r}
    /\ registry' = MapDelete(registry, req[r].userId)
    /\ pc' = [pc EXCEPT ![r] = "failing"]

\* lines 293-318: socket made, session stored under userId, delay(1500)
P1_InitOk(r) ==
    /\ prog = "P1"
    /\ pc[r] = "init"
    /\ sockSt' = [sockSt EXCEPT ![r] = "live"]
    /\ registry' = MapSet(registry, req[r].userId,
                          [owner |-> r, connected |-> FALSE])
    /\ pc' = [pc EXCEPT ![r] = "delay"]
    /\ UNCHANGED << order, shut, statusReply, tempRepo, handoff, pushed, codeFailed, knownUser, deployFailed, sid, prog, openH, deploys, db, lateWrites, req, resp, responded,
                    dirs, listening, events, opens, codeCalls, codePending,
                    timer >>

\* fetchLatestBaileysVersion, useMultiFileAuthState or the socket factory threw
P1_InitThrows(r) ==
    /\ prog = "P1"
    /\ pc[r] = "init"
    /\ P1_Catch(r)
    /\ UNCHANGED << order, shut, statusReply, tempRepo, handoff, pushed, codeFailed, knownUser, deployFailed, sid, prog, openH, deploys, db, lateWrites, req, resp, responded,
                    sockSt, listening, events, opens, codeCalls, codePending,
                    timer >>

\* lines 318-321: the delay is over, requestPairingCode is called
P1_DelayDone(r) ==
    /\ prog = "P1"
    /\ pc[r] = "delay"
    /\ codeCalls' = [codeCalls EXCEPT ![r] = @ + 1]
    /\ codePending' = [codePending EXCEPT ![r] = @ + 1]
    /\ pc' = [pc EXCEPT ![r] = "code"]
    /\ UNCHANGED << order, shut, statusReply, tempRepo, handoff, pushed, codeFailed, knownUser, deployFailed, sid, prog, openH, deploys, db, lateWrites, req, resp, responded,
                    registry, dirs, sockSt, listening, events, opens, timer >>

\* lines 321-328: the code arrived, the status UPDATE is awaited
P1_CodeResolved(r) ==
    /\ prog = "P1"
    /\ pc[r] = "code"
    /\ codePending' = [codePending EXCEPT ![r] = @ - 1]
    /\ pc' = [pc EXCEPT ![r] = "update"]
    /\ UNCHANGED << order, shut, statusReply, tempRepo, handoff, pushed, codeFailed, knownUser, deployFailed, sid, prog, openH, deploys, db, lateWrites, req, resp, responded,
                    registry, dirs, sockSt, listening, events, opens, codeCalls,
                    timer >>

\* line 321: requestPairingCode rejected
P1_CodeRejected(r) ==
    /\ prog = "P1"
    /\ pc[r] = "code"
    /\ codeFailed' = codeFailed \cup {r}
    /\ codePending' = [codePending EXCEPT ![r] = @ - 1]
    /\ P1_Catch(r)
    /\ UNCHANGED << order, shut, statusReply, tempRepo, handoff, pushed, knownUser, deployFailed, sid, prog, openH, deploys, db, lateWrites, req, resp, responded,
                    sockSt, listening, events, opens, codeCalls, timer >>

\* Faulty variant of P1_UpdateDone: a statement after res.json throws and the
\* catch answers without testing res.headersSent
P1_UpdateDone_AnswersThenThrows(r) ==
    /\ prog = "P1"
    /\ pc[r] = "update"
    /\ DbUpdate(req[r].userId, "waiting_for_user")
    /\ resp' = [resp EXCEPT ![r] = Append(Append(@, 200), 500)]
    /\ dirs' = dirs \ {r}
    /\ registry' = MapDelete(registry, req[r].userId)
    /\ pc' = [pc EXCEPT ![r] = "done"]
    /\ UNCHANGED << order, shut, statusReply, tempRepo, handoff, pushed, codeFailed, knownUser, deployFailed, sid, prog, openH, deploys, lateWrites, req, responded, sockSt,
                    listening, timer, events, opens, codeCalls, codePending >>

\* lines 325-408: status written; answer, attach the listeners, arm the
\* 30 min expiry timer
P1_UpdateDone(r) ==
    /\ prog = "P1"
    /\ pc[r] = "update"
    /\ DbUpdate(req[r].userId, "waiting_for_user")
    /\ IF ~HeadersSent(r) THEN Send(r, 200) ELSE resp' = resp
    /\ listening' = [listening EXCEPT ![r] = TRUE]
    /\ timer' = [timer EXCEPT ![r] = "armed"]
    /\ pc' = [pc EXCEPT ![r] = "live"]
    /\ UNCHANGED << order, shut, statusReply, tempRepo, handoff, pushed, codeFailed, knownUser, deployFailed, sid, prog, openH, deploys, lateWrites, req, responded, registry,
                    dirs, sockSt, events, opens, codeCalls, codePending >>

\* line 325: the UPDATE rejected
P1_UpdateThrows(r) ==
    /\ prog = "P1"
    /\ pc[r] = "update"
    /\ P1_Catch(r)
    /\ UNCHANGED << order, shut, statusReply, tempRepo, handoff, pushed, codeFailed, knownUser, deployFailed, sid, prog, openH, deploys, db, lateWrites, req, resp, responded,
                    sockSt, listening, events, opens, codeCalls, codePending,
                    timer >>

\* lines 416-426: status 'failed' written, the error response is sent
P1_FailRecorded(r) ==
    /\ prog = "P1"
    /\ pc[r] = "failing"
    /\ DbUpdate(req[r].userId, "failed")
    /\ IF ~HeadersSent(r) THEN Send(r, 500) ELSE resp' = resp
    /\ pc' = [pc EXCEPT ![r] = "done"]
    /\ UNCHANGED << order, shut, statusReply, tempRepo, handoff, pushed, codeFailed, knownUser, deployFailed, sid, prog, openH, deploys, lateWrites, req, responded, registry,
                    dirs, sockSt, listening, events, opens, codeCalls,
                    codePending, timer >>

\* line 416: the UPDATE inside the catch rejected: startPairingProcess rejects,
\* nobody awaits it
P1_FailThrows(r) ==
    /\ prog = "P1"
    /\ pc[r] = "failing"
    /\ pc' = [pc EXCEPT ![r] = "aborted"]
    /\ UNCHANGED << order, shut, statusReply, tempRepo, handoff, pushed, codeFailed, knownUser, deployFailed, sid, prog, openH, deploys, db, lateWrites, req, resp, responded,
                    registry, dirs, sockSt, listening, events, opens, codeCalls,
                    codePending, timer >>

\* The socket emits connection.update before the listener is attached (line 342)
P1_EventLost(r, isOpen) ==
    /\ prog = "P1"
    /\ sockSt[r] = "live" /\ ~listening[r]
    /\ MayEmit
    /\ events' = [events EXCEPT ![r] = @ + 1]
    /\ opens' = [opens EXCEPT ![r] = IF isOpen THEN @ + 1 ELSE @]
    /\ UNCHANGED << order, shut, statusReply, tempRepo, handoff, pushed, codeFailed, knownUser, deployFailed, sid, prog, req, pc, resp, responded, registry, dirs, sockSt,
                    listening, codeCalls, codePending, timer, openH, deploys,
                    db, lateWrites >>

\* lines 342-358: 'open' reaches the listener: no session, return; else
\* connected = true and the status UPDATE is awaited
P1_OnOpen(r) ==
    /\ prog = "P1"
    /\ sockSt[r] = "live" /\ listening[r]
    /\ MayEmit
    /\ events' = [events EXCEPT ![r] = @ + 1]
    /\ opens' = [opens EXCEPT ![r] = @ + 1]
    /\ IF MapHas(registry, req[r].userId)
       THEN /\ registry' = [registry EXCEPT ![req[r].userId].connected = TRUE]
            /\ openH' = [openH EXCEPT ![r] = Append(@, "upd")]
       ELSE UNCHANGED << registry, openH >>
    /\ UNCHANGED << order, shut, statusReply, tempRepo, handoff, pushed, codeFailed, knownUser, deployFailed, sid, prog, req, pc, resp, responded, dirs, sockSt, listening,
                    codeCalls, codePending, timer, deploys, db, lateWrites >>

\* lines 390-392: 'close' reaches the listener: logged
P1_OnClose(r) ==
    /\ prog = "P1"
    /\ sockSt[r] = "live" /\ listening[r]
    /\ MayEmit
    /\ events' = [events EXCEPT ![r] = @ + 1]
    /\ UNCHANGED << order, shut, statusReply, tempRepo, handoff, pushed, codeFailed, knownUser, deployFailed, sid, prog, req, pc, resp, responded, registry, dirs, sockSt,
                    listening, opens, codeCalls, codePending, timer, openH,
                    deploys, db, lateWrites >>

\* lines 355-362: status 'connected' written, the welcome message is sent
P1_ConnectedRecorded(r, i) ==
    /\ prog = "P1"
    /\ i \in DOMAIN openH[r] /\ openH[r][i] = "upd"
    /\ DbUpdate(req[r].userId, "connected")
    /\ openH' = [openH EXCEPT ![r][i] = "msg"]
    /\ UNCHANGED << order, shut, statusReply, tempRepo, handoff, pushed, codeFailed, knownUser, deployFailed, sid, prog, req, pc, resp, responded, registry, dirs, sockSt,
                    listening, events, opens, codeCalls, codePending, timer,
                    deploys, lateWrites >>

\* line 355: that UPDATE rejected: the listener run ends here
P1_ConnectedThrows(r, i) ==
    /\ prog = "P1"
    /\ i \in DOMAIN openH[r] /\ openH[r][i] = "upd"
    /\ openH' = [openH EXCEPT ![r][i] = "aborted"]
    /\ UNCHANGED << order, shut, statusReply, tempRepo, handoff, pushed, codeFailed, knownUser, deployFailed, sid, prog, req, pc, resp, responded, registry, dirs, sockSt,
                    listening, events, opens, codeCalls, codePending, timer,
                    deploys, db, lateWrites >>

\* lines 361-377, 96-101: the welcome message is sent or has failed (caught);
\* saveCredsAndDeploy starts with cloneRepo
P1_WelcomeSettled(r, i) ==
    /\ prog = "P1"
    /\ i \in DOMAIN openH[r] /\ openH[r][i] = "msg"
    /\ deploys' = [deploys EXCEPT ![r] = @ + 1]
    /\ openH' = [openH EXCEPT ![r][i] = "git"]
    /\ UNCHANGED << order, shut, statusReply, tempRepo, handoff, pushed, codeFailed, knownUser, deployFailed, sid, prog, req, pc, resp, responded, registry, dirs, sockSt,
                    listening, events, opens, codeCalls, codePending, timer,
                    db, lateWrites >>

\* lines 101-133: cloned, copied, committed, pushed; status 'deploying' written
P1_PushDone(r, i) ==
    /\ prog = "P1"
    /\ i \in DOMAIN openH[r] /\ openH[r][i] = "git"
    /\ DbUpdate(req[r].userId, "deploying")
    /\ openH' = [openH EXCEPT ![r][i] = "heroku"]
    /\ UNCHANGED << order, shut, statusReply, tempRepo, handoff, pushed, codeFailed, knownUser, deployFailed, sid, prog, req, pc, resp, responded, registry, dirs, sockSt,
                    listening, events, opens, codeCalls, codePending, timer,
                    deploys, lateWrites >>

\* lines 135-140: a git step or that UPDATE threw: the catch of saveCredsAndDeploy
P1_PushFails(r, i) ==
    /\ prog = "P1"
    /\ i \in DOMAIN openH[r] /\ openH[r][i] = "git"
    /\ openH' = [openH EXCEPT ![r][i] = "markFailed"]
    /\ deployFailed' = deployFailed \cup {r}
    /\ UNCHANGED << order, shut, statusReply, tempRepo, handoff, pushed, codeFailed, knownUser, sid, prog, req, pc, resp, responded, registry, dirs, sockSt,
                    listening, events, opens, codeCalls, codePending, timer,
                    deploys, db, lateWrites >>

\* lines 145-205, 380: app created, configured, built; status 'deployed' written
P1_HerokuDone(r, i) ==
    /\ prog = "P1"
    /\ i \in DOMAIN openH[r] /\ openH[r][i] = "heroku"
    /\ DbUpdate(req[r].userId, "deployed")
    /\ openH' = [openH EXCEPT ![r][i] = "closing"]
    /\ UNCHANGED << order, shut, statusReply, tempRepo, handoff, pushed, codeFailed, knownUser, deployFailed, sid, prog, req, pc, resp, responded, registry, dirs, sockSt,
                    listening, events, opens, codeCalls, codePending, timer,
                    deploys, lateWrites >>

\* lines 207-210, 135-140: deployToHeroku threw
P1_HerokuFails(r, i) ==
    /\ prog = "P1"
    /\ i \in DOMAIN openH[r] /\ openH[r][i] = "heroku"
    /\ openH' = [openH EXCEPT ![r][i] = "markFailed"]
    /\ deployFailed' = deployFailed \cup {r}
    /\ UNCHANGED << order, shut, statusReply, tempRepo, handoff, pushed, codeFailed, knownUser, sid, prog, req, pc, resp, responded, registry, dirs, sockSt,
                    listening, events, opens, codeCalls, codePending, timer,
                    deploys, db, lateWrites >>

\* lines 137-141, 380: status 'deployment_failed' written, saveCredsAndDeploy returns
P1_DeployFailRecorded(r, i) ==
    /\ prog = "P1"
    /\ i \in DOMAIN openH[r] /\ openH[r][i] = "markFailed"
    /\ DbUpdate(req[r].userId, "deployment_failed")
    /\ openH' = [openH EXCEPT ![r][i] = "closing"]
    /\ UNCHANGED << order, shut, statusReply, tempRepo, handoff, pushed, codeFailed, knownUser, deployFailed, sid, prog, req, pc, resp, responded, registry, dirs, sockSt,
                    listening, events, opens, codeCalls, codePending, timer,
                    deploys, lateWrites >>

\* line 137: the UPDATE inside that catch rejected: the listener run ends here
P1_DeployFailThrows(r, i) ==
    /\ prog = "P1"
    /\ i \in DOMAIN openH[r] /\ openH[r][i] = "markFailed"
    /\ openH' = [openH EXCEPT ![r][i] = "aborted"]
    /\ UNCHANGED << order, shut, statusReply, tempRepo, handoff, pushed, codeFailed, knownUser, deployFailed, sid, prog, req, pc, resp, responded, registry, dirs, sockSt,
                    listening, events, opens, codeCalls, codePending, timer,
                    deploys, db, lateWrites >>

\* lines 380-387: delay(5000) is over: sock.ws.close(), the 10 s cleanup timer is armed
P1_Closing(r, i) ==
    /\ prog = "P1"
    /\ i \in DOMAIN openH[r] /\ openH[r][i] = "closing"
    /\ sockSt' = [sockSt EXCEPT ![r] = "ended"]
    /\ openH' = [openH EXCEPT ![r][i] = "cleanup"]
    /\ UNCHANGED << order, shut, statusReply, tempRepo, handoff, pushed, codeFailed, knownUser, deployFailed, sid, prog, req, pc, resp, responded, registry, dirs, listening,
                    events, opens, codeCalls, codePending, timer, deploys, db,
                    lateWrites >>

\* lines 384-387: the cleanup timer fires
P1_CleanupFires(r, i) ==
    /\ prog = "P1"
    /\ i \in DOMAIN openH[r] /\ openH[r][i] = "cleanup"
    /\ dirs' = dirs \ {r}
    /\ registry' = MapDelete(registry, req[r].userId)
    /\ openH' = [openH EXCEPT ![r][i] = "done"]
    /\ UNCHANGED << order, shut, statusReply, tempRepo, handoff, pushed, codeFailed, knownUser, deployFailed, sid, prog, req, pc, resp, responded, sockSt, listening, events,
                    opens, codeCalls, codePending, timer, deploys, db,
                    lateWrites >>

\* lines 396-408: the 30 min timer fires: an unconnected session is dropped and
\* the status 'expired' is written without awaiting it
P1_Expire(r) ==
    /\ prog = "P1"
    /\ timer[r] = "armed"
    /\ IF MapHas(registry, req[r].userId) /\ ~registry[req[r].userId].connected
       THEN /\ registry' = MapDelete(registry, req[r].userId)
            /\ dirs' = dirs \ {r}
            /\ lateWrites' = lateWrites \cup {<< req[r].userId, "expired" >>}
            /\ timer' = [timer EXCEPT ![r] = "expired"]
       ELSE /\ timer' = [timer EXCEPT ![r] = "lapsed"]
            /\ UNCHANGED << registry, dirs, lateWrites >>
    /\ UNCHANGED << order, shut, statusReply, tempRepo, handoff, pushed, codeFailed, knownUser, deployFailed, sid, prog, req, pc, resp, responded, sockSt, listening, events,
                    opens, codeCalls, codePending, openH, deploys, db >>

\* An un-awaited UPDATE reaches the store
LateWriteApplied(w) ==
    /\ w \in lateWrites
    /\ lateWrites' = lateWrites \ {w}
    /\ DbUpdate(w[1], w[2])
    /\ UNCHANGED << order, shut, statusReply, tempRepo, handoff, pushed, codeFailed, knownUser, deployFailed, sid, prog, req, pc, resp, responded, registry, dirs, sockSt,
                    listening, events, opens, codeCalls, codePending, timer,
                    openH, deploys >>

\* An un-awaited UPDATE rejects: .catch(console.error), or nobody awaits it
LateWriteFails(w) ==
    /\ w \in lateWrites
    /\ lateWrites' = lateWrites \ {w}
    /\ UNCHANGED << order, shut, statusReply, tempRepo, handoff, pushed, codeFailed, knownUser, deployFailed, sid, prog, req, pc, resp, responded, registry, dirs, sockSt,
                    listening, events, opens, codeCalls, codePending, timer,
                    openH, deploys, db >>

LateStatuses == {"expired", "disconnected"}

NextP1 ==
    \/ \E r \in Req :
        \/ \E b \in Bodies : P1_Pair(r, b)
        \/ P1_SelectDone(r)
        \/ P1_SelectThrows(r)
        \/ P1_InsertDone(r)
        \/ P1_InsertThrows(r)
        \/ P1_InitOk(r)
        \/ P1_InitThrows(r)
        \/ P1_DelayDone(r)
        \/ P1_CodeResolved(r)
        \/ P1_CodeRejected(r)
        \/ P1_UpdateDone(r)
        \/ P1_UpdateThrows(r)
        \/ P1_FailRecorded(r)
        \/ P1_FailThrows(r)
        \/ \E isOpen \in BOOLEAN : P1_EventLost(r, isOpen)
        \/ P1_OnOpen(r)
        \/ P1_OnClose(r)
        \/ P1_Expire(r)
        \/ \E i \in HandlerRuns :
            \/ P1_ConnectedRecorded(r, i)
            \/ P1_ConnectedThrows(r, i)
            \/ P1_WelcomeSettled(r, i)
            \/ P1_PushDone(r, i)
            \/ P1_PushFails(r, i)
            \/ P1_HerokuDone(r, i)
            \/ P1_HerokuFails(r, i)
            \/ P1_DeployFailRecorded(r, i)
            \/ P1_DeployFailThrows(r, i)
            \/ P1_Closing(r, i)
            \/ P1_CleanupFires(r, i)
    \/ \E w \in UserIds \X LateStatuses :
        \/ LateWriteApplied(w)
        \/ LateWriteFails(w)

SpecP1 == InitFor({"P1"}) /\ [][NextP1]_vars

----------------------------------------------------------------------------
(* P2: the inline POST /pair of src/index.js 532-674 and its deployToHeroku *)

\* !cleanPhone.startsWith('254')
P2_PhoneRejected(b) ==
    LET cleanPhone == StripNonDigits(b.phoneNumber)
    IN  ~(Len(cleanPhone) >= 3 /\ SubSeq(cleanPhone, 1, 3) = << "2", "5", "4" >>)

\* lines 667-673: the catch of the route
P2_RouteCatch(r) ==
    /\ Send(r, 500)
    /\ pc' = [pc EXCEPT ![r] = "done"]

\* lines 532-558: validation, then the SELECT is awaited
P2_Pair(r, b) ==
    /\ prog = "P2"
    /\ Arrives(r, b)
    /\ req' = [req EXCEPT ![r] = b]
    /\ IF MissingField(b) \/ P2_PhoneRejected(b)
       THEN /\ Send(r, 400)
            /\ pc' = [pc EXCEPT ![r] = "done"]
       ELSE /\ pc' = [pc EXCEPT ![r] = "select"]
            /\ resp' = resp
    /\ knownUser' = [knownUser EXCEPT ![r] = b.userId \in UserIds /\ HasRow(b.userId)]
    /\ UNCHANGED << order, shut, statusReply, tempRepo, handoff, pushed, codeFailed, deployFailed, sid, prog, responded, registry, dirs, sockSt, listening,
                    events, opens, codeCalls, codePending, timer, openH,
                    deploys, db, lateWrites >>

\* line 567: `toxic_${userId}_${Date.now()}`.  The id is new unless another
\* request of the same user took its id within the same millisecond: that
\* request has not gone past its next await yet.
P2_SessionIds(r) ==
    {r} \cup { sid[q] : q \in { x \in Req : /\ x # r
                                           /\ pc[x] = "setup"
                                           /\ req[x].userId = req[r].userId } }

\* lines 560-577: the SELECT returned: reject a known user, else mkdir and
\* load the auth state
P2_SelectDone(r) ==
    /\ prog = "P2"
    /\ pc[r] = "select"
    /\ IF HasRow(req[r].userId)
       THEN /\ Send(r, 400)
            /\ pc' = [pc EXCEPT ![r] = "done"]
            /\ dirs' = dirs
            /\ sid' = sid
       ELSE /\ \E s \in P2_SessionIds(r) :
                /\ sid' = [sid EXCEPT ![r] = s]
                /\ dirs' = dirs \cup {s}
            /\ pc' = [pc EXCEPT ![r] = "setup"]
            /\ resp' = resp
    /\ UNCHANGED << order, shut, statusReply, tempRepo, handoff, pushed, codeFailed, knownUser, deployFailed, prog, req, responded, registry, sockSt, listening, events,
                    opens, codeCalls, codePending, timer, openH, deploys, db,
                    lateWrites >>

\* line 555: the SELECT rejected
P2_SelectThrows(r) ==
    /\ prog = "P2"
    /\ pc[r] = "select"
    /\ P2_RouteCatch(r)
    /\ UNCHANGED << order, shut, statusReply, tempRepo, handoff, pushed, codeFailed, knownUser, deployFailed, sid, prog, req, responded, registry, dirs, sockSt, listening,
                    events, opens, codeCalls, codePending, timer, openH,
                    deploys, db, lateWrites >>

\* lines 577-594: socket made, requestPairingCode is called
P2_SetupOk(r) ==
    /\ prog = "P2"
    /\ pc[r] = "setup"
    /\ sockSt' = [sockSt EXCEPT ![r] = "live"]
    /\ codeCalls' = [codeCalls EXCEPT ![r] = @ + 1]
    /\ codePending' = [codePending EXCEPT ![r] = @ + 1]
    /\ pc' = [pc EXCEPT ![r] = "code"]
    /\ UNCHANGED << order, shut, statusReply, tempRepo, handoff, pushed, codeFailed, knownUser, deployFailed, sid, prog, req, resp, responded, registry, dirs, listening,
                    events, opens, timer, openH, deploys, db, lateWrites >>

\* lines 577-590: useMultiFileAuthState, fetchLatestWaWebVersion or the socket
\* factory threw
P2_SetupThrows(r) ==
    /\ prog = "P2"
    /\ pc[r] = "setup"
    /\ P2_RouteCatch(r)
    /\ UNCHANGED << order, shut, statusReply, tempRepo, handoff, pushed, codeFailed, knownUser, deployFailed, sid, prog, req, responded, registry, dirs, sockSt, listening,
                    events, opens, codeCalls, codePending, timer, openH,
                    deploys, db, lateWrites >>

\* lines 594-613: the code arrived: the session is stored, the INSERT is awaited
P2_CodeResolved(r) ==
    /\ prog = "P2"
    /\ pc[r] = "code"
    /\ codePending' = [codePending EXCEPT ![r] = @ - 1]
    /\ registry' = MapSet(registry, sid[r],
                          [userId |-> req[r].userId, connected |-> FALSE])
    /\ pc' = [pc EXCEPT ![r] = "insert"]
    /\ UNCHANGED << order, shut, statusReply, tempRepo, handoff, pushed, codeFailed, knownUser, deployFailed, sid, prog, req, resp, responded, dirs, sockSt, listening,
                    events, opens, codeCalls, timer, openH, deploys, db,
                    lateWrites >>

\* line 594: requestPairingCode rejected
P2_CodeRejected(r) ==
    /\ prog = "P2"
    /\ pc[r] = "code"
    /\ codePending' = [codePending EXCEPT ![r] = @ - 1]
    /\ P2_RouteCatch(r)
    /\ UNCHANGED << order, shut, statusReply, tempRepo, handoff, pushed, codeFailed, knownUser, deployFailed, sid, prog, req, responded, registry, dirs, sockSt, listening,
                    events, opens, codeCalls, timer, openH, deploys, db,
                    lateWrites >>

\* lines 610-665: the row is in: listeners attached, 10 min timer armed, answer
P2_InsertDone(r) ==
    /\ prog = "P2"
    /\ pc[r] = "insert"
    /\ ~HasRow(req[r].userId)
    /\ DbInsert(req[r].userId, sid[r], "pairing")
    /\ listening' = [listening EXCEPT ![r] = TRUE]
    /\ timer' = [timer EXCEPT ![r] = "armed"]
    /\ Send(r, 200)
    /\ pc' = [pc EXCEPT ![r] = "live"]
    /\ UNCHANGED << order, shut, statusReply, tempRepo, handoff, pushed, codeFailed, knownUser, deployFailed, sid, prog, req, responded, registry, dirs, sockSt, events,
                    opens, codeCalls, codePending, openH, deploys,
                    lateWrites >>

\* line 610: the INSERT rejected (the store failed, or user_id is taken)
P2_InsertThrows(r) ==
    /\ prog = "P2"
    /\ pc[r] = "insert"
    /\ P2_RouteCatch(r)
    /\ UNCHANGED << order, shut, statusReply, tempRepo, handoff, pushed, codeFailed, knownUser, deployFailed, sid, prog, req, responded, registry, dirs, sockSt, listening,
                    events, opens, codeCalls, codePending, timer, openH,
                    deploys, db, lateWrites >>

\* The socket emits connection.update before the listener is attached (line 616)
P2_EventLost(r, isOpen) ==
    /\ prog = "P2"
    /\ sockSt[r] = "live" /\ ~listening[r]
    /\ MayEmit
    /\ events' = [events EXCEPT ![r] = @ + 1]
    /\ opens' = [opens EXCEPT ![r] = IF isOpen THEN @ + 1 ELSE @]
    /\ UNCHANGED << order, shut, statusReply, tempRepo, handoff, pushed, codeFailed, knownUser, deployFailed, sid, prog, req, pc, resp, responded, registry, dirs, sockSt,
                    listening, codeCalls, codePending, timer, openH, deploys,
                    db, lateWrites >>

\* lines 616-630: 'open' reaches the listener: no session, return; else
\* connected = true and the status UPDATE is awaited
P2_OnOpen(r) ==
    /\ prog = "P2"
    /\ sockSt[r] = "live" /\ listening[r]
    /\ MayEmit
    /\ events' = [events EXCEPT ![r] = @ + 1]
    /\ opens' = [opens EXCEPT ![r] = @ + 1]
    /\ IF MapHas(registry, sid[r])
       THEN /\ registry' = [registry EXCEPT ![sid[r]].connected = TRUE]
            /\ openH' = [openH EXCEPT ![r] = Append(@, "upd")]
       ELSE UNCHANGED << registry, openH >>
    /\ UNCHANGED << order, shut, statusReply, tempRepo, handoff, pushed, codeFailed, knownUser, deployFailed, sid, prog, req, pc, resp, responded, dirs, sockSt, listening,
                    codeCalls, codePending, timer, deploys, db, lateWrites >>

\* lines 616-618, 636-642: 'close' reaches the listener: no session, return;
\* else the status 'disconnected' is written and nothing follows
P2_OnClose(r) ==
    /\ prog = "P2"
    /\ sockSt[r] = "live" /\ listening[r]
    /\ MayEmit
    /\ events' = [events EXCEPT ![r] = @ + 1]
    /\ lateWrites' = IF MapHas(registry, sid[r])
                     THEN lateWrites \cup {<< req[r].userId, "disconnected" >>}
                     ELSE lateWrites
    /\ UNCHANGED << order, shut, statusReply, tempRepo, handoff, pushed, codeFailed, knownUser, deployFailed, sid, prog, req, pc, resp, responded, registry, dirs, sockSt,
                    listening, opens, codeCalls, codePending, timer, openH,
                    deploys, db >>

\* lines 627-633, 677-701: status 'connected' written; deployToHeroku: no
\* session, return; else the status 'deploying' is awaited
P2_ConnectedRecorded(r, i) ==
    /\ prog = "P2"
    /\ i \in DOMAIN openH[r] /\ openH[r][i] = "upd"
    /\ DbUpdate(req[r].userId, "connected")
    /\ IF MapHas(registry, sid[r])
       THEN /\ deploys' = [deploys EXCEPT ![r] = @ + 1]
            /\ openH' = [openH EXCEPT ![r][i] = "markDeploying"]
       ELSE /\ deploys' = deploys
            /\ openH' = [openH EXCEPT ![r][i] = "done"]
    /\ UNCHANGED << order, shut, statusReply, tempRepo, handoff, pushed, codeFailed, knownUser, deployFailed, sid, prog, req, pc, resp, responded, registry, dirs, sockSt,
                    listening, events, opens, codeCalls, codePending, timer,
                    lateWrites >>

\* line 627: that UPDATE rejected: the listener run ends here
P2_ConnectedThrows(r, i) ==
    /\ prog = "P2"
    /\ i \in DOMAIN openH[r] /\ openH[r][i] = "upd"
    /\ openH' = [openH EXCEPT ![r][i] = "aborted"]
    /\ UNCHANGED << order, shut, statusReply, tempRepo, handoff, pushed, codeFailed, knownUser, deployFailed, sid, prog, req, pc, resp, responded, registry, dirs, sockSt,
                    listening, events, opens, codeCalls, codePending, timer,
                    deploys, db, lateWrites >>

\* lines 698-751: status 'deploying' written, the three Heroku calls follow
P2_DeployingRecorded(r, i) ==
    /\ prog = "P2"
    /\ i \in DOMAIN openH[r] /\ openH[r][i] = "markDeploying"
    /\ DbUpdate(req[r].userId, "deploying")
    /\ openH' = [openH EXCEPT ![r][i] = "heroku"]
    /\ UNCHANGED << order, shut, statusReply, tempRepo, handoff, pushed, codeFailed, knownUser, deployFailed, sid, prog, req, pc, resp, responded, registry, dirs, sockSt,
                    listening, events, opens, codeCalls, codePending, timer,
                    deploys, lateWrites >>

\* lines 698, 772-779: that UPDATE rejected: the catch of deployToHeroku
P2_DeployingThrows(r, i) ==
    /\ prog = "P2"
    /\ i \in DOMAIN openH[r] /\ openH[r][i] = "markDeploying"
    /\ openH' = [openH EXCEPT ![r][i] = "markFailed"]
    /\ deployFailed' = deployFailed \cup {r}
    /\ UNCHANGED << order, shut, statusReply, tempRepo, handoff, pushed, codeFailed, knownUser, sid, prog, req, pc, resp, responded, registry, dirs, sockSt,
                    listening, events, opens, codeCalls, codePending, timer,
                    deploys, db, lateWrites >>

\* lines 708-770: app created, configured, built; status 'deployed' written;
\* the 30 s cleanup timer is armed
P2_HerokuDone(r, i) ==
    /\ prog = "P2"
    /\ i \in DOMAIN openH[r] /\ openH[r][i] = "heroku"
    /\ DbUpdate(req[r].userId, "deployed")
    /\ openH' = [openH EXCEPT ![r][i] = "cleanup"]
    /\ UNCHANGED << order, shut, statusReply, tempRepo, handoff, pushed, codeFailed, knownUser, deployFailed, sid, prog, req, pc, resp, responded, registry, dirs, sockSt,
                    listening, events, opens, codeCalls, codePending, timer,
                    deploys, lateWrites >>

\* lines 708-757, 772-779: a Heroku call or the last UPDATE threw
P2_HerokuFails(r, i) ==
    /\ prog = "P2"
    /\ i \in DOMAIN openH[r] /\ openH[r][i] = "heroku"
    /\ openH' = [openH EXCEPT ![r][i] = "markFailed"]
    /\ deployFailed' = deployFailed \cup {r}
    /\ UNCHANGED << order, shut, statusReply, tempRepo, handoff, pushed, codeFailed, knownUser, sid, prog, req, pc, resp, responded, registry, dirs, sockSt,
                    listening, events, opens, codeCalls, codePending, timer,
                    deploys, db, lateWrites >>

\* lines 776-780: status 'deployment_failed' written, deployToHeroku returns
P2_DeployFailRecorded(r, i) ==
    /\ prog = "P2"
    /\ i \in DOMAIN openH[r] /\ openH[r][i] = "markFailed"
    /\ DbUpdate(req[r].userId, "deployment_failed")
    /\ openH' = [openH EXCEPT ![r][i] = "done"]
    /\ UNCHANGED << order, shut, statusReply, tempRepo, handoff, pushed, codeFailed, knownUser, deployFailed, sid, prog, req, pc, resp, responded, registry, dirs, sockSt,
                    listening, events, opens, codeCalls, codePending, timer,
                    deploys, lateWrites >>

\* line 776: the UPDATE inside that catch rejected: the listener run ends here
P2_DeployFailThrows(r, i) ==
    /\ prog = "P2"
    /\ i \in DOMAIN openH[r] /\ openH[r][i] = "markFailed"
    /\ openH' = [openH EXCEPT ![r][i] = "aborted"]
    /\ UNCHANGED << order, shut, statusReply, tempRepo, handoff, pushed, codeFailed, knownUser, deployFailed, sid, prog, req, pc, resp, responded, registry, dirs, sockSt,
                    listening, events, opens, codeCalls, codePending, timer,
                    deploys, db, lateWrites >>

\* lines 762-770: the cleanup timer fires
P2_CleanupFires(r, i) ==
    /\ prog = "P2"
    /\ i \in DOMAIN openH[r] /\ openH[r][i] = "cleanup"
    /\ registry' = MapDelete(registry, sid[r])
    /\ dirs' = dirs \ {sid[r]}
    /\ openH' = [openH EXCEPT ![r][i] = "done"]
    /\ UNCHANGED << order, shut, statusReply, tempRepo, handoff, pushed, codeFailed, knownUser, deployFailed, sid, prog, req, pc, resp, responded, sockSt, listening, events,
                    opens, codeCalls, codePending, timer, deploys, db,
                    lateWrites >>

\* lines 648-658: the 10 min timer fires: an unconnected session is dropped
P2_Expire(r) ==
    /\ prog = "P2"
    /\ timer[r] = "armed"
    /\ IF MapHas(registry, sid[r]) /\ ~registry[sid[r]].connected
       THEN /\ registry' = MapDelete(registry, sid[r])
            /\ dirs' = dirs \ {sid[r]}
            /\ timer' = [timer EXCEPT ![r] = "expired"]
       ELSE /\ timer' = [timer EXCEPT ![r] = "lapsed"]
            /\ UNCHANGED << registry, dirs >>
    /\ UNCHANGED << order, shut, statusReply, tempRepo, handoff, pushed, codeFailed, knownUser, deployFailed, sid, prog, req, pc, resp, responded, sockSt, listening, events,
                    opens, codeCalls, codePending, openH, deploys, db,
                    lateWrites >>

NextP2 ==
    \/ \E r \in Req :
        \/ \E b \in Bodies : P2_Pair(r, b)
        \/ P2_SelectDone(r)
        \/ P2_SelectThrows(r)
        \/ P2_SetupOk(r)
        \/ P2_SetupThrows(r)
        \/ P2_CodeResolved(r)
        \/ P2_CodeRejected(r)
        \/ P2_InsertDone(r)
        \/ P2_InsertThrows(r)
        \/ \E isOpen \in BOOLEAN : P2_EventLost(r, isOpen)
        \/ P2_OnOpen(r)
        \/ P2_OnClose(r)
        \/ P2_Expire(r)
        \/ \E i \in HandlerRuns :
            \/ P2_ConnectedRecorded(r, i)
            \/ P2_ConnectedThrows(r, i)
            \/ P2_DeployingRecorded(r, i)
            \/ P2_DeployingThrows(r, i)
            \/ P2_HerokuDone(r, i)
            \/ P2_HerokuFails(r, i)
            \/ P2_DeployFailRecorded(r, i)
            \/ P2_DeployFailThrows(r, i)
            \/ P2_CleanupFires(r, i)
    \/ \E w \in UserIds \X LateStatuses :
        \/ LateWriteApplied(w)
        \/ LateWriteFails(w)

SpecP2 == InitFor({"P2"}) /\ [][NextP2]_vars

----------------------------------------------------------------------------
(* P5: src/unnamed/part_001, the object `sessions` keyed by userId.  The
   variable registry holds it: registry[userId] = [sock, ready, code], the
   socket being named by the request that created it. *)

\* `code: null`
NoCode == "null"

\* values of update.pairingCode
PairingCodes == {"AAAA", "BBBB"}

\* values of update.connection; "none" is an update without the field
Connections == {"open", "close", "none"}

\* lines 17-22: POST /pair; the body is not validated; useMultiFileAuthState
\* is awaited
P5_Pair(r, b) ==
    /\ prog = "P5"
    /\ Arrives(r, b)
    /\ req' = [req EXCEPT ![r] = b]
    /\ pc' = [pc EXCEPT ![r] = "auth"]
    /\ UNCHANGED << order, shut, statusReply, tempRepo, handoff, pushed, codeFailed, knownUser, deployFailed, sid, prog, resp, responded, registry, dirs, sockSt,
                    listening, events, opens, codeCalls, codePending, timer,
                    openH, deploys, db, lateWrites >>

\* lines 22-25: the auth state is loaded, its folder ./sessions/<userId>
\* created; fetchLatestBaileysVersion is awaited
P5_AuthOk(r) ==
    /\ prog = "P5"
    /\ pc[r] = "auth"
    /\ dirs' = dirs \cup {req[r].userId}
    /\ pc' = [pc EXCEPT ![r] = "version"]
    /\ UNCHANGED << order, shut, statusReply, tempRepo, handoff, pushed, codeFailed, knownUser, deployFailed, sid, prog, req, resp, responded, registry, sockSt,
                    listening, events, opens, codeCalls, codePending, timer,
                    openH, deploys, db, lateWrites >>

\* lines 22, 25, 66-69: one of the two awaits rejected: the catch answers 500
P5_SetupThrows(r) ==
    /\ prog = "P5"
    /\ pc[r] \in {"auth", "version"}
    /\ Send(r, 500)
    /\ pc' = [pc EXCEPT ![r] = "done"]
    /\ UNCHANGED << order, shut, statusReply, tempRepo, handoff, pushed, codeFailed, knownUser, deployFailed, sid, prog, req, responded, registry, dirs, sockSt,
                    listening, events, opens, codeCalls, codePending, timer,
                    openH, deploys, db, lateWrites >>

\* lines 29-64: socket made, sessions[userId] replaced by a fresh record, the
\* listener attached, the response sent
P5_VersionOk(r) ==
    /\ prog = "P5"
    /\ pc[r] = "version"
    /\ sockSt' = [sockSt EXCEPT ![r] = "live"]
    /\ registry' = MapSet(registry, req[r].userId,
                          [sock |-> r, ready |-> FALSE, code |-> NoCode])
    /\ listening' = [listening EXCEPT ![r] = TRUE]
    /\ Send(r, 200)
    /\ pc' = [pc EXCEPT ![r] = "done"]
    /\ UNCHANGED << order, shut, statusReply, tempRepo, handoff, pushed, codeFailed, knownUser, deployFailed, sid, prog, req, responded, dirs, events, opens,
                    codeCalls, codePending, timer, openH, deploys, db,
                    lateWrites >>

\* lines 40-55: the socket of request r emits connection.update with the
\* fields connection = conn and pairingCode = code (NoCode: field absent); the
\* listener writes to sessions[userId], whichever record is there now
P5_OnUpdate(r, conn, code) ==
    /\ prog = "P5"
    /\ sockSt[r] = "live" /\ listening[r]
    /\ MayEmit
    /\ events' = [events EXCEPT ![r] = @ + 1]
    /\ opens' = [opens EXCEPT ![r] = IF conn = "open" THEN @ + 1 ELSE @]
    /\ LET u == req[r].userId
           s1 == IF code # NoCode
                 THEN [registry[u] EXCEPT !.code = code]
                 ELSE registry[u]
           s2 == IF conn = "open" THEN [s1 EXCEPT !.ready = TRUE] ELSE s1
       IN  registry' = [registry EXCEPT ![u] = s2]
    /\ UNCHANGED << order, shut, statusReply, tempRepo, handoff, pushed, codeFailed, knownUser, deployFailed, sid, prog, req, pc, resp, responded, dirs, sockSt,
                    listening, codeCalls, codePending, timer, openH, deploys,
                    db, lateWrites >>

\* lines 73-81: GET /status/:id, the body of the answer
P5_Status(id) ==
    IF ~MapHas(registry, id)
    THEN [status |-> "not_found"]
    ELSE [ready |-> registry[id].ready, code |-> registry[id].code]

NextP5 ==
    \/ \E r \in Req, b \in Bodies : P5_Pair(r, b)
    \/ \E r \in Req : P5_AuthOk(r)
    \/ \E r \in Req : P5_SetupThrows(r)
    \/ \E r \in Req : P5_VersionOk(r)
    \/ \E r \in Req, conn \in Connections, code \in PairingCodes \cup {NoCode} :
            P5_OnUpdate(r, conn, code)

SpecP5 == InitFor({"P5"}) /\ [][NextP5]_vars

----------------------------------------------------------------------------
(* The git part of the deploy handoff: cloneRepo / saveCredsAndDeploy of
   src/index.js 76-125 and saveToGitHubAndDeploy of src/unnamed/part_000
   49-82 (and 408-441), step by step, for two sessions whose 'open' listener
   runs have both reached the call of the handoff *)

\* the variables of the pairing handlers, which the git steps leave alone
pairingVars == << prog, req, pc, resp, responded, registry, dirs, sockSt,
                  listening, events, opens, codeCalls, codePending, timer,
                  openH, deploys, db, lateWrites, sid, knownUser,
                  deployFailed, codeFailed, statusReply, order, shut >>

\* fs.readdirSync(sessionPath): the files of the credential directory of r,
\* name |-> session whose credentials the file holds.  Every directory has a
\* creds.json; the file of the signal session is named after the account.
SessionFiles(r) ==
    [n \in {"creds.json", IF r = 1 THEN "session-1.json" ELSE "session-2.json"}
        |-> r]

\* fs.copyFileSync over a directory: the files of fs replace or join those of t
Overlay(t, fs) ==
    [n \in DOMAIN t \cup DOMAIN fs |-> IF n \in DOMAIN fs THEN fs[n] ELSE t[n]]

\* Both sessions are connected and both listener runs are at the call of the
\* handoff (src/index.js line 377, part_000 line 267)
InitHandoff ==
    /\ prog \in {"P1", "P3"}
    /\ req = [r \in Req |->
                [phoneNumber |-> << "1", "2", "3", "4", "-", "5", "6", "7", "8" >>,
                 userId |-> IF r = 1 THEN "alice" ELSE "bob"]]
    /\ pc = [r \in Req |-> "live"]
    /\ resp = [r \in Req |-> << 200 >>]
    /\ responded = [r \in Req |-> FALSE]
    /\ registry = IF prog = "P1"
                  THEN [u \in UserIds |->
                          [owner |-> IF u = "alice" THEN 1 ELSE 2,
                           connected |-> TRUE]]
                  ELSE [k \in Req |->
                          [userId |-> req[k].userId, connected |-> TRUE]]
    /\ dirs = Req
    /\ sockSt = [r \in Req |-> "live"]
    /\ listening = [r \in Req |-> TRUE]
    /\ events = [r \in Req |-> 1]
    /\ opens = [r \in Req |-> 1]
    /\ codeCalls = [r \in Req |-> 1]
    /\ codePending = [r \in Req |-> 0]
    /\ timer = [r \in Req |-> IF prog = "P1" THEN "armed" ELSE "unset"]
    /\ openH = [r \in Req |-> << IF prog = "P1" THEN "git" ELSE "deploy" >>]
    /\ deploys = [r \in Req |-> 1]
    /\ db = [u \in UserIds |->
                [status |-> IF prog = "P1" THEN "connected" ELSE "none",
                 sid |-> 0]]
    /\ lateWrites = {}
    /\ sid = [r \in Req |-> 0]
    /\ knownUser = [r \in Req |-> FALSE]
    /\ deployFailed = {}
    /\ codeFailed = {}
    /\ tempRepo = NoRepo
    /\ handoff = [r \in Req |-> "idle"]
    /\ pushed = [r \in Req |-> << >>]
    /\ statusReply = NoReply
    /\ order = << >>
    /\ shut = [sig \in Signals |->
                [at |-> "idle", pos |-> 0, start |-> 0, visited |-> {}]]

\* index.js 80-86, part_000 53-62: tempDir is removed if it exists, then
\* git.clone(repoUrl, tempDir) is started and awaited
H_Begin(r) ==
    /\ handoff[r] = "idle"
    /\ tempRepo' = [NoRepo EXCEPT !.state = "cloning", !.cloner = r]
    /\ handoff' = [handoff EXCEPT ![r] = "clone"]
    /\ UNCHANGED << pairingVars, pushed >>

\* index.js 86-120, part_000 62-80: the clone of r resolved; Session/ is
\* made, the session files of r are copied into it, `git add .` is awaited.
\* The directory is the checked-out repository if this clone still owns it;
\* if another handoff removed it and is cloning, the files land in there.
H_CloneDone(r) ==
    /\ handoff[r] = "clone"
    /\ tempRepo' = [tempRepo EXCEPT
                       !.state = IF tempRepo.cloner = r THEN "repo" ELSE @,
                       !.tree = Overlay(@, SessionFiles(r))]
    /\ handoff' = [handoff EXCEPT ![r] = "add"]
    /\ UNCHANGED << pairingVars, pushed >>

\* index.js 89-92, part_000 88-91: the clone rejected (network, or its
\* directory was removed under it): the handoff throws
H_CloneFails(r) ==
    /\ handoff[r] = "clone"
    /\ handoff' = [handoff EXCEPT ![r] = "failed"]
    /\ UNCHANGED << pairingVars, tempRepo, pushed >>

\* index.js 120, part_000 80: `git add .` stages every change of the working
\* tree of tempDir; `git commit` is awaited
H_Add(r) ==
    /\ handoff[r] = "add"
    /\ tempRepo.state = "repo"
    /\ tempRepo' = [tempRepo EXCEPT !.index = Overlay(@, tempRepo.tree),
                                    !.tree = << >>]
    /\ handoff' = [handoff EXCEPT ![r] = "commit"]
    /\ UNCHANGED << pairingVars, pushed >>

\* index.js 121, part_000 81: `git commit -m "Add session for user ..."`
\* commits what is staged (nothing staged: no commit is made); push awaited
H_Commit(r) ==
    /\ handoff[r] = "commit"
    /\ tempRepo.state = "repo"
    /\ tempRepo' = [tempRepo EXCEPT
                       !.commits = IF tempRepo.index = << >> THEN @
                                   ELSE Append(@, [by |-> r,
                                                   files |-> tempRepo.index]),
                       !.index = << >>]
    /\ handoff' = [handoff EXCEPT ![r] = "push"]
    /\ UNCHANGED << pairingVars, pushed >>

\* the files of the commits cs, later commits over earlier ones
RECURSIVE FilesOf(_)
FilesOf(cs) ==
    IF cs = << >> THEN << >>
    ELSE Overlay(FilesOf(SubSeq(cs, 1, Len(cs) - 1)), cs[Len(cs)].files)

\* index.js 122, part_000 82: `git push origin main` sends the commits of
\* tempDir that the remote does not have
H_Push(r) ==
    /\ handoff[r] = "push"
    /\ tempRepo.state = "repo"
    /\ pushed' = [pushed EXCEPT ![r] = FilesOf(tempRepo.commits)]
    /\ tempRepo' = [tempRepo EXCEPT !.commits = << >>]
    /\ handoff' = [handoff EXCEPT ![r] = "done"]
    /\ UNCHANGED pairingVars

\* index.js 135, part_000 88: add, commit or push rejected (tempDir is not a
\* repository at that moment, the network, a rejected push): the handoff throws
H_GitFails(r) ==
    /\ handoff[r] \in {"add", "commit", "push"}
    /\ handoff' = [handoff EXCEPT ![r] = "failed"]
    /\ UNCHANGED << pairingVars, tempRepo, pushed >>

NextHandoff ==
    \/ \E r \in Req : H_Begin(r)
    \/ \E r \in Req : H_CloneDone(r)
    \/ \E r \in Req : H_CloneFails(r)
    \/ \E r \in Req : H_Add(r)
    \/ \E r \in Req : H_Commit(r)
    \/ \E r \in Req : H_Push(r)
    \/ \E r \in Req : H_GitFails(r)

SpecHandoff == InitHandoff /\ [][NextHandoff]_vars

----------------------------------------------------------------------------
(* The status endpoints.  statusReply keeps the answer of a query for as long
   as nothing else happens: StatusForgotten drops it before the next step of
   a pairing handler. *)

\* what a GET /status handler leaves alone: everything
StatusReadOnly ==
    UNCHANGED << prog, req, pc, resp, responded, registry, dirs, sockSt,
                 listening, events, opens, codeCalls, codePending, timer,
                 openH, deploys, db, lateWrites, sid, knownUser, deployFailed,
                 codeFailed, tempRepo, handoff, pushed, order, shut >>

\* A query for id can be put on record: statusReply holds the answers for one
\* id at a time (StatusForgotten comes first when the id changes)
StatusAsked(id) == IF statusReply = NoReply THEN TRUE ELSE statusReply[1] = id

\* src/index.js 431-453: the row of the user, or 404
P1_StatusReply(u) ==
    IF HasRow(u) THEN [code |-> 200, user |-> db[u]] ELSE [code |-> 404]

\* src/index.js 784-815: the row of the user with session_active, or 404
P2_StatusReply(u) ==
    IF HasRow(u)
    THEN [code |-> 200, user |-> db[u],
          session_active |-> MapHas(registry, db[u].sid)]
    ELSE [code |-> 404]

\* part_000 330-346 and 750-766: connected and userId of the session, or
\* connected: false with 'Session not found'
P34_StatusReply(id) ==
    IF MapHas(registry, id)
    THEN [connected |-> IF prog = "P3" THEN P3_StatusConnected(id)
                        ELSE P4_StatusConnected(id),
          userId |-> registry[id].userId]
    ELSE [connected |-> FALSE, message |-> "Session not found"]

\* src/index.js 431-453: GET /status/:userId of the first program.  The
\* awaited SELECT and the answer are one step: nothing happens in between.
P1_GetStatus(u) ==
    /\ prog = "P1" /\ StatusAsked(u)
    /\ statusReply' = << u, P1_StatusReply(u) >>
    /\ StatusReadOnly

\* src/index.js 784-815: GET /status/:userId of the second program
P2_GetStatus(u) ==
    /\ prog = "P2" /\ StatusAsked(u)
    /\ statusReply' = << u, P2_StatusReply(u) >>
    /\ StatusReadOnly

\* src/index.js 455-461, 816-822: the SELECT rejected: 500.  The failure of
\* the store is an event: no answer is on record before it or after it
P12_GetStatusThrows(u) ==
    /\ prog \in {"P1", "P2"}
    /\ statusReply = NoReply
    /\ statusReply' = NoReply
    /\ StatusReadOnly

\* part_000 330-346, 750-766: GET /status/:sessionId
P34_GetStatus(id) ==
    /\ prog \in {"P3", "P4"} /\ StatusAsked(id)
    /\ statusReply' = << id, P34_StatusReply(id) >>
    /\ StatusReadOnly

\* Faulty variant of P5_GetStatus: the code is handed out once and cleared
P5_GetStatus_ConsumesCode(id) ==
    /\ prog = "P5" /\ StatusAsked(id)
    /\ statusReply' = << id, P5_Status(id) >>
    /\ registry' = IF MapHas(registry, id)
                   THEN [registry EXCEPT ![id].code = NoCode]
                   ELSE registry
    /\ UNCHANGED << prog, req, pc, resp, responded, dirs, sockSt,
                    listening, events, opens, codeCalls, codePending, timer,
                    openH, deploys, db, lateWrites, sid, knownUser,
                    deployFailed, codeFailed, tempRepo, handoff, pushed,
                    order, shut >>

\* part_001 73-81: GET /status/:id
P5_GetStatus(id) ==
    /\ prog = "P5" /\ StatusAsked(id)
    /\ statusReply' = << id, P5_Status(id) >>
    /\ StatusReadOnly

\* another event is about to happen: the recorded answer is no longer the
\* answer of "the last event"
StatusForgotten ==
    /\ statusReply # NoReply
    /\ statusReply' = NoReply
    /\ StatusReadOnly

NextStatus ==
    \/ \E u \in UserIds : P1_GetStatus(u)
    \/ \E u \in UserIds : P2_GetStatus(u)
    \/ \E u \in UserIds : P12_GetStatusThrows(u)
    \/ \E r \in Req : P34_GetStatus(SessionId(r))
    \/ \E u \in UserIds \cup {""} : P5_GetStatus(u)
    \/ StatusForgotten
    \/ statusReply = NoReply /\ (NextP1 \/ NextP2 \/ NextP3 \/ NextP4 \/ NextP5)

SpecStatus ==
    InitFor({"P1", "P2", "P3", "P4", "P5"}) /\ [][NextStatus]_vars

----------------------------------------------------------------------------
(* Specifications of several variants side by side, and their fairness.    *)
(* Fairness is assumed of what Node itself guarantees: an armed timer      *)
(* fires, an awaited local promise (file system, delay, the store's        *)
(* driver) settles one way or the other.  Nothing is assumed of the        *)
(* WhatsApp client: its events and its requestPairingCode promise may      *)
(* never come.                                                             *)

SpecP12 == InitFor({"P1", "P2"}) /\ [][NextP1 \/ NextP2]_vars

SpecP13 == InitFor({"P1", "P3"}) /\ [][NextP1 \/ NextP3]_vars

SpecP34 == InitFor({"P3", "P4"}) /\ [][NextP3 \/ NextP4]_vars

SpecP134 == InitFor({"P1", "P3", "P4"}) /\ [][NextP1 \/ NextP3 \/ NextP4]_vars

\* P1: the awaited steps of the request chain, the expiry timer, the store
FairP1 ==
    /\ \A r \in Req :
        /\ WF_vars(P1_SelectDone(r) \/ P1_SelectThrows(r))
        /\ WF_vars(P1_InsertDone(r) \/ P1_InsertThrows(r))
        /\ WF_vars(P1_InitOk(r) \/ P1_InitThrows(r))
        /\ WF_vars(P1_DelayDone(r))
        /\ WF_vars(P1_UpdateDone(r) \/ P1_UpdateThrows(r))
        /\ WF_vars(P1_FailRecorded(r) \/ P1_FailThrows(r))
        /\ WF_vars(P1_Expire(r))
    /\ \A w \in UserIds \X LateStatuses :
        WF_vars(LateWriteApplied(w) \/ LateWriteFails(w))

\* P3: the awaited steps of startPairing and the cleanup timer
FairP3 ==
    \A r \in Req :
        /\ WF_vars(P3_InitOk(r) \/ P3_InitThrows(r))
        /\ WF_vars(P3_DelayDone(r))
        /\ \A i \in HandlerRuns : WF_vars(P3_CleanupFires(r, i))

\* P4: the awaited steps of the handler and its 20 s timer
FairP4 ==
    \A r \in Req :
        /\ WF_vars(P4_SetupOk(r) \/ P4_SetupThrows(r))
        /\ WF_vars(P4_Timeout(r))

\* P2: the awaited steps of the handler, its expiry timer, the store
FairP2 ==
    /\ \A r \in Req :
        /\ WF_vars(P2_SelectDone(r) \/ P2_SelectThrows(r))
        /\ WF_vars(P2_SetupOk(r) \/ P2_SetupThrows(r))
        /\ WF_vars(P2_InsertDone(r) \/ P2_InsertThrows(r))
        /\ WF_vars(P2_Expire(r))
        /\ \A i \in HandlerRuns :
            /\ WF_vars(P2_ConnectedRecorded(r, i) \/ P2_ConnectedThrows(r, i))
            /\ WF_vars(P2_DeployingRecorded(r, i) \/ P2_DeployingThrows(r, i))
            /\ WF_vars(P2_DeployFailRecorded(r, i) \/ P2_DeployFailThrows(r, i))
            /\ WF_vars(P2_CleanupFires(r, i))
    /\ \A w \in UserIds \X LateStatuses :
        WF_vars(LateWriteApplied(w) \/ LateWriteFails(w))

FairSpecP1 == InitFor({"P1"}) /\ [][NextP1]_vars /\ FairP1

FairSpecP4 == InitFor({"P4"}) /\ [][NextP4]_vars /\ FairP4

FairSpecP13 == SpecP13 /\ FairP1 /\ FairP3

FairSpecP34 == SpecP34 /\ FairP3 /\ FairP4

FairSpecP2 == SpecP2 /\ FairP2

FairSpecP134 == SpecP134 /\ FairP1 /\ FairP3 /\ FairP4

\* P3 where, in addition, every welcome-message send settles (line 251: the
\* awaited sock.sendMessage resolves or rejects)
FairSpecP3Welcome ==
    /\ SpecP3 /\ FairP3
    /\ \A r \in Req : \A i \in HandlerRuns :
            WF_vars(P3_WelcomeSent(r, i) \/ P3_WelcomeFails(r, i))

----------------------------------------------------------------------------
(* Claims *)

\* The session of request r is in the registry
Registered(r) ==
    IF prog = "P1"
    THEN MapHas(registry, req[r].userId) /\ registry[req[r].userId].owner = r
    ELSE MapHas(registry, IF prog = "P2" THEN sid[r] ELSE SessionId(r))

\* The session directory of request r
SessionDir(r) == IF prog = "P2" THEN sid[r] ELSE r

\* The pairing code was delivered to the caller of r
Delivered(r) == resp[r] = << 200 >>

\* C1: in the stable pairing handler every request gets exactly one response:
\* never two, and eventually one, however 'open', 'close', the outcome of
\* requestPairingCode and the 20 s timer are ordered.
C1_ExactlyOneResponse ==
    /\ [](\A r \in Req : Len(resp[r]) <= 1)
    /\ \A r \in Req : (pc[r] # "idle") ~> (Len(resp[r]) = 1)

\* 'open', a delivered code, the timer and a later 'close' all happened
C1_Witness ==
    \E r \in Req :
        /\ prog = "P4" /\ resp[r] = << 200 >>
        /\ timer[r] = "fired" /\ sockSt[r] = "ended" /\ opens[r] > 0

\* C2: with startPairingProcess (P1) and startPairing (P3) no request is
\* answered twice: success, inner-catch error and route-catch error exclude
\* one another.
C2_NeverAnsweredTwice == \A r \in Req : Len(resp[r]) <= 1

\* one request got the code, another the error of the inner catch
C2_Witness ==
    \E r, q \in Req :
        /\ resp[r] = << 200 >> /\ pc[r] = "live"
        /\ resp[q] = << 500 >> /\ pc[q] = "done" /\ codeCalls[q] = 1

\* C3 (as claimed): with startPairingProcess (P1) and startPairing (P3) every
\* request that arrived is eventually answered, whatever the client does with
\* the pairing-code request and whatever the status store does.
C3_EveryRequestAnswered ==
    \A r \in Req : (pc[r] # "idle") ~> (resp[r] # << >>)

\* C4 (as claimed): the stable pairing handler invokes requestPairingCode at
\* most once per session, even if 'open' is delivered more than once.
C4_AtMostOneCodeRequest ==
    \A r \in Req : prog = "P4" => codeCalls[r] <= 1

\* C5: the stable pairing handler never invokes requestPairingCode for a
\* session before that session's socket has delivered an 'open' event.
C5_CodeOnlyAfterOpen ==
    \A r \in Req : prog = "P4" /\ codeCalls[r] > 0 => opens[r] > 0

\* the code was requested after 'open' and delivered
C5_Witness ==
    \E r \in Req :
        prog = "P4" /\ opens[r] > 0 /\ codeCalls[r] > 0 /\ Delivered(r)

\* C6 (as claimed): in P1 every session put in the registry whose socket never
\* emits 'open' is eventually removed by the expiry path, its directory removed
\* and the user's status 'expired'.
C6_RegisteredEventuallyExpired ==
    \A r \in Req :
        Registered(r) ~>
            \/ opens[r] > 0
            \/ /\ ~Registered(r) /\ r \notin dirs /\ timer[r] = "expired"
               /\ StatusOf(req[r].userId) = "expired"

\* C7 (as claimed): in P3 and P4 a session whose code was delivered and whose
\* socket emits no 'open' afterwards is eventually removed from activeSessions.
C7_DeliveredEventuallyRemoved ==
    \A r \in Req : \A k \in 0..MaxEvents :
        (Delivered(r) /\ Registered(r) /\ opens[r] = k) ~>
            (~Registered(r) \/ opens[r] > k)

\* C8 (as claimed): in P1 and P2 exactly one of {expire, connect} wins: no
\* session is both dropped by the expiry callback and marked connected (or
\* deployed) by an 'open' listener run, in whichever order the two come.
C8_ExpireXorConnect ==
    \A r \in Req :
        timer[r] = "expired" => Len(openH[r]) = 0 /\ deploys[r] = 0

\* C9: in P1, P3 and P4 a request with a missing field or fewer than 8 digits
\* is answered 400 and creates nothing: no registry entry, no directory, no
\* socket, no row in the status store.
C9_InvalidCreatesNothing ==
    LET InvalidBody(b) == \/ b.phoneNumber = << >>
                          \/ b.userId = ""
                          \/ Len(StripNonDigits(b.phoneNumber)) < 8
    IN
    /\ \A r \in Req :
        pc[r] # "idle" /\ InvalidBody(req[r]) =>
            /\ resp[r] = << 400 >>
            /\ ~Registered(r)
            /\ SessionDir(r) \notin dirs
            /\ sockSt[r] = "none"
    /\ \A u \in UserIds :
        (\A r \in Req : pc[r] # "idle" /\ req[r].userId = u => InvalidBody(req[r]))
            => ~HasRow(u)

\* a 7-digit number with a user id was refused
C9_Witness ==
    \E r \in Req :
        /\ req[r].userId # "" /\ Len(StripNonDigits(req[r].phoneNumber)) = 7
        /\ resp[r] = << 400 >> /\ pc[r] = "done"

\* C10 (as claimed): in P2 the validation lets a request with both fields pass
\* exactly when its number has at least 8 digits after stripping non-digits.
C10_AcceptsExactlyLongNumbers ==
    [][\A r \in Req :
        pc[r] = "idle" /\ pc'[r] # "idle" /\ ~MissingField(req'[r]) =>
            (pc'[r] = "select" <=> Len(StripNonDigits(req'[r].phoneNumber)) >= 8)]_vars

\* C11: in P1 and P2 a request whose userId had a row in the users table when
\* it arrived only waits for the lookup and then ends with an error response
\* (400, or 500 when the lookup fails); it makes no socket, no directory, no
\* registry entry, requests no code, and its steps leave the registry and the
\* users table as they were.
C11_KnownUserRejected ==
    /\ [](\A r \in Req : knownUser[r] =>
            /\ pc[r] \in {"select", "done"}
            /\ resp[r] \in {<< >>, << 400 >>, << 500 >>}
            /\ pc[r] = "done" => resp[r] # << >>
            /\ sockSt[r] = "none" /\ codeCalls[r] = 0
            /\ SessionDir(r) \notin dirs
            /\ ~Registered(r))
    /\ [][\A r \in Req : knownUser[r] /\ pc'[r] # pc[r] =>
            db' = db /\ registry' = registry]_vars

\* a known user was refused with 400 while the first session is registered
C11_Witness ==
    \E r, q \in Req :
        /\ knownUser[r] /\ resp[r] = << 400 >> /\ pc[r] = "done"
        /\ q # r /\ req[q].userId = req[r].userId /\ Registered(q)

\* C12 (as claimed): in P2 activePairingSessions never holds two entries with
\* the same userId, and of two requests with the same userId that are in
\* flight together at most one has a pairing code requested for it.
C12_OneSessionPerUser ==
    /\ \A j, k \in DOMAIN registry :
        j # k => registry[j].userId # registry[k].userId
    /\ \A r, q \in Req :
        r # q /\ pc[r] # "idle" /\ pc[q] # "idle" /\ req[r].userId = req[q].userId
            /\ resp[r] = << >> /\ resp[q] = << >>
            => ~(codeCalls[r] > 0 /\ codeCalls[q] > 0)

\* C13 (as claimed): in P3 and P4 a valid request whose userId has a session
\* in activeSessions is answered 409 at once, and activeSessions never holds
\* two sessions of one userId.
C13_DuplicateUserRefused ==
    /\ [](\A j, k \in DOMAIN registry :
            j # k => registry[j].userId # registry[k].userId)
    /\ [][\A r \in Req :
            /\ pc[r] = "idle" /\ pc'[r] # "idle"
            /\ ~MissingField(req'[r])
            /\ Len(StripNonDigits(req'[r].phoneNumber)) >= 8
            /\ \E k \in DOMAIN registry : registry[k].userId = req'[r].userId
            => resp'[r] = << 409 >>]_vars

\* C14 (as claimed): in P4 a 'close' event that comes after the pairing code
\* was delivered is benign: it writes no response, and leaves the session in
\* activeSessions and its directory on disk.
C14_CloseAfterCodeBenign ==
    [][\A r \in Req :
        /\ prog = "P4" /\ Delivered(r) /\ Registered(r)
        /\ events'[r] = events[r] + 1 /\ opens'[r] = opens[r]
        => /\ resp'[r] = resp[r]
           /\ MapHas(registry', SessionId(r))
           /\ r \in dirs']_vars

\* C15 (as claimed): in P2 a 'close' event never takes a user's stored status
\* away from 'deployed': no step replaces 'deployed' by the status
\* 'disconnected' that the 'close' branch writes.
C15_DeployedSurvivesClose ==
    [][\A u \in UserIds :
        db[u].status = "deployed" => db'[u].status # "disconnected"]_vars

\* C16 (as claimed): in P4, once the socket of a registered session has
\* emitted 'open', GET /status/{sessionId} answers connected: true for as long
\* as the session is registered.
C16_StatusConnectedAfterOpen ==
    \A r \in Req :
        prog = "P4" /\ opens[r] > 0 /\ Registered(r)
            => P4_StatusConnected(SessionId(r))

\* C17 (as claimed): in P1 and P3, once the deploy handoff of a session has
\* failed, the session's credential directory is not deleted any more.
C17_FailedDeployKeepsCredentials ==
    [][\A r \in Req :
        r \in deployFailed /\ r \in dirs => r \in dirs']_vars

\* C18 (as claimed): in the second program of index.js, every session whose
\* deployment has finished, with 'deployed' or with 'deployment_failed', is
\* eventually removed from activePairingSessions.
C18_FinishedDeployEventuallyRemoved ==
    \A r \in Req :
        (\E i \in DOMAIN openH[r] :
            \/ openH[r][i] = "cleanup"
            \/ openH[r][i] = "done" /\ r \in deployFailed)
            ~> ~Registered(r)

\* C19 (as claimed): in P1, P3 and P4, when requestPairingCode fails the
\* session leaves the registry and its credential directory is removed in the
\* same step; no success response is written afterwards; and a caller that
\* had no response yet receives the 500.
C19_CodeFailureTerminatesSession ==
    /\ [][\A r \in Req : r \notin codeFailed /\ r \in codeFailed' =>
            /\ ~Registered(r)'
            /\ SessionDir(r) \notin dirs'
            /\ resp[r] = << >> => resp'[r] \in {<< >>, << 500 >>}]_vars
    /\ [][\A r \in Req : r \in codeFailed =>
            \/ resp'[r] = resp[r]
            \/ resp'[r] = Append(resp[r], 500)]_vars
    /\ \A r \in Req :
            (r \in codeFailed /\ resp[r] = << >>) ~> (resp[r] = << 500 >>)

\* C20 (as claimed): in the second program of index.js, once the 10-minute
\* expiry has removed a never-connected session, GET /status/{userId} no
\* longer reports the status 'pairing'.
C20_ExpiredSessionNotPairing ==
    \A r \in Req :
        prog = "P2" /\ timer[r] = "expired" => StatusOf(req[r].userId) # "pairing"

\* C21 (as claimed): the success response of startPairing (P3) carries the
\* sessionId under which the session is registered, and GET /status with that
\* id reports connected: false before any 'open'.
C21_SuccessBodyAddressesSession ==
    \A r \in Req :
        prog = "P3" /\ Delivered(r) =>
            LET body == P3_SuccessBody(r)
            IN  /\ "pairingCode" \in DOMAIN body
                /\ "sessionId" \in DOMAIN body
                /\ body.sessionId = SessionId(r)
                /\ opens[r] = 0 => ~P3_StatusConnected(body.sessionId)

\* C22 (as claimed): in part_001 the code of a session record is set at most
\* once: once sessions[userId].code is non-null no event changes its value.
C22_CodeSetAtMostOnce ==
    [][\A u \in DOMAIN registry :
        prog = "P5" /\ u \in DOMAIN registry' /\ registry[u].code # NoCode
            /\ registry'[u].sock = registry[u].sock
            => registry'[u].code = registry[u].code]_vars

\* C28 (as claimed): in part_001 the events of a socket only affect the
\* session record created together with that socket: an event of another
\* socket changes neither its ready flag nor its code.
C28_EventsStayWithTheirSession ==
    [][\A r \in Req : \A u \in DOMAIN registry :
        prog = "P5" /\ events'[r] # events[r] /\ registry[u].sock # r
            => registry'[u] = registry[u]]_vars

\* C23 (as claimed): in startPairing (P3) every 'open' processed for a
\* registered session eventually starts the deploy handoff of that listener
\* run, whether the welcome message was sent or its send failed.
C23_OpenLeadsToDeploy ==
    \A r \in Req : \A i \in HandlerRuns :
        (prog = "P3" /\ i \in DOMAIN openH[r] /\ Registered(r))
            ~> (/\ i \in DOMAIN openH[r]
                /\ openH[r][i] \in {"deploy", "msgOk", "msgFail", "cleanup", "done"})

\* C24 (as claimed): concurrent deploy handoffs of two sessions do not
\* interfere: what the handoff of a session commits and pushes is exactly the
\* set of files of that session's credential directory.
C24_HandoffPushesOwnFiles ==
    \A r \in Req :
        /\ handoff[r] = "done" => pushed[r] = SessionFiles(r)
        /\ \A k \in DOMAIN tempRepo.commits :
                tempRepo.commits[k].by = r => tempRepo.commits[k].files = SessionFiles(r)

C26_HandoffStartedOnce ==
    \A r \in Req : prog \in {"P1", "P2", "P3"} => deploys[r] <= 1

\* C27 (as claimed): in P1 the status of a user only moves forward along
\* pairing -> waiting_for_user -> connected -> deploying ->
\* {deployed, deployment_failed}; failed and expired are entered only from
\* before connected; nothing overwrites a final status, 'deployed' included.
C27_StatusOnlyMovesForward ==
    [][\A u \in UserIds :
        LET Rank(st) == CASE st = "none" -> 0
                          [] st = "pairing" -> 1
                          [] st = "waiting_for_user" -> 2
                          [] st = "connected" -> 3
                          [] st = "deploying" -> 4
                          [] OTHER -> 5
            old == db[u].status
            new == db'[u].status
        IN  prog = "P1" /\ new # old =>
                /\ Rank(new) > Rank(old)
                /\ new \in {"failed", "expired"} => Rank(old) <= 2]_vars

\* C29 (as claimed): in P1, P2 and P3 no 'open' event of a session's socket
\* is lost: once the socket has emitted 'open', the session, while it is
\* registered, has its connected flag set.
C29_NoOpenEventLost ==
    \A r \in Req :
        LET key == IF prog = "P1" THEN req[r].userId
                   ELSE IF prog = "P2" THEN sid[r] ELSE SessionId(r)
        IN  prog \in {"P1", "P2", "P3"} /\ opens[r] > 0 /\ Registered(r)
                => registry[key].connected

\* C30 (as claimed): in P1, once the session of a user has ended as failed or
\* expired, a POST /pair with that userId and a valid phone number is not
\* refused as a duplicate: its answer is not the 400.
C30_RetryAfterFailureAccepted ==
    [][\A q \in Req :
        /\ prog = "P1"
        /\ resp[q] = << >> /\ resp'[q] # << >>
        /\ ~MissingField(req[q])
        /\ Len(StripNonDigits(req[q].phoneNumber)) >= 8
        /\ StatusOf(req[q].userId) \in {"failed", "expired"}
        => resp'[q] # << 400 >>]_vars

\* C31: in the stable pairing handler (P4), a step that answers a registered
\* session's request with 500 or 504 also removes the session from
\* activeSessions and deletes its directory, and a session whose request was
\* answered with an error and that is gone from activeSessions is never
\* stored again, also when a pending requestPairingCode settles afterwards.
C31_ErrorAnswerRemovesSessionForGood ==
    [][\A r \in Req :
        LET id == SessionId(r)
            ErrorCodes == {500, 504}
            AnsweredError(rs) == \E k \in DOMAIN rs : rs[k] \in ErrorCodes
        IN  prog = "P4" =>
            /\ (/\ MapHas(registry, id)
                /\ Len(resp'[r]) > Len(resp[r])
                /\ resp'[r][Len(resp'[r])] \in ErrorCodes)
               => ~MapHas(registry', id) /\ r \notin dirs'
            /\ (AnsweredError(resp[r]) /\ ~MapHas(registry, id))
               => ~MapHas(registry', id)]_vars

\* a request was answered 504 after its session was stored, the code request
\* that was pending then has settled, and the session is gone
C31_Witness ==
    \E r \in Req :
        /\ prog = "P4"
        /\ resp[r] = << 504 >>
        /\ codeCalls[r] > 0 /\ codePending[r] = 0
        /\ timer[r] = "fired"
        /\ ~MapHas(registry, SessionId(r)) /\ r \notin dirs

\* C32: in the stable pairing program (P4), every run of gracefulShutdown that
\* a signal started leads to process.exit, and when the process has exited
\* activeSessions is empty and the directory of every session a shutdown loop
\* visited is removed, whatever other callbacks stored or deleted meanwhile.
C32_ShutdownEmptiesAndTerminates ==
    /\ [](Exited =>
            /\ DOMAIN registry = {}
            /\ \A sig \in Signals : \A r \in Req :
                 SessionId(r) \in shut[sig].visited => r \notin dirs)
    /\ \A sig \in Signals : (shut[sig].at = "saveCreds") ~> Exited

\* the process exited from a loop that also visited a session which was stored
\* while the loop was suspended at its await; no other loop was running
C32_Witness ==
    \E sig \in Signals :
        /\ shut[sig].at = "exit"
        /\ \A other \in Signals \ {sig} : shut[other].at = "idle"
        /\ \E i \in DOMAIN order :
              i > shut[sig].start /\ order[i] \in shut[sig].visited

====
